---- MODULE Spec2Model ----
(***************************************************************************)
(* Catalog service (ProductService / ProductController) and user service   *)
(* (AuthController / ProfileController / auth middleware) of               *)
(* ashnikh78/catalog-service, modelled over an abstract relational store.  *)
(*                                                                         *)
(* Strings that the code inspects character by character (product names,   *)
(* slugs, search terms) are sequences of one-character strings; a          *)
(* character outside ASCII is written by its code point ("U+212A").        *)
(* An optional value (a JavaScript field that may be undefined/null) is a  *)
(* set: {} when absent, {v} when present.                                  *)
(***************************************************************************)
EXTENDS Integers, Sequences, FiniteSets, TLC

VARIABLES
    slugArgs,   \* names handed to ProductService.generateSlug (pure-function runs)
    slugRets,   \* the outcomes of those calls, in order
    db,         \* catalog store: products, variants, images (committed rows)
    now,        \* Date.now() of the catalog process, in milliseconds
    call,       \* the last ProductService call: its operation, inputs and outcome
    deleted,    \* history: ids soft-deleted and not updated since
    users,      \* user store: the rows of table users
    addresses,  \* user store: the rows of table addresses
    pending,    \* registrations in flight between their findOne and their create
    issued,     \* history: tokens handed out by login, with the login's email
    clock,      \* time of the user service, in half hours
    http        \* the last request of the user service and its response

vars ==
    <<slugArgs, slugRets, db, now, call, deleted, users, addresses, pending, issued,
      clock, http>>

catalogVars == <<db, now, call, deleted>>
userVars == <<users, addresses, pending, issued, clock, http>>
slugVars == <<slugArgs, slugRets>>

-----------------------------------------------------------------------------
(* Optional values and small helpers                                       *)

None == {}
Some(v) == {v}
Get(o) == CHOOSE v \in o : TRUE

Min(a, b) == IF a <= b THEN a ELSE b
Max(a, b) == IF a >= b THEN a ELSE b

\* F applied to the value of v, with v evaluated once.
Then(v, F(_)) == CHOOSE r \in {F(x) : x \in {v}} : TRUE

RECURSIVE Concat(_)
Concat(ss) == IF ss = <<>> THEN <<>> ELSE Head(ss) \o Concat(Tail(ss))

-----------------------------------------------------------------------------
(* ProductService.generateSlug                                             *)

\* Longest name of the single-name runs, and of the two-name runs.
MaxNameLen == 3
MaxPairLen == 2

\* Characters names are drawn from: a lowercase letter, an uppercase letter, a
\* digit, a hyphen, a space, a non-ASCII letter (e-acute) and the Kelvin sign.
Alphabet == {"a", "B", "1", "-", " ", "U+00E9", "U+212A"}

Names(n) == UNION {[1..k -> Alphabet] : k \in 0..n}

\* The characters of Alphabet that are ASCII letters or digits.
AsciiAlnum == {"a", "B", "1"}

\* The class [a-z0-9] of the two regular expressions, over the characters that
\* lowercasing Alphabet can produce.
AZ09 == {"a", "b", "k", "1"}

\* String.prototype.toLowerCase, per character (Unicode default case mapping).
LowerChar(c) ==
    CASE c = "B" -> <<"b">>
      [] c = "U+212A" -> <<"k">>
      [] OTHER -> <<c>>

ToLowerCase(s) == Concat([i \in 1..Len(s) |-> LowerChar(s[i])])

\* .replace(/[^a-z0-9]+/g, '-'): every maximal run outside the class becomes "-".
RECURSIVE ReplaceRuns(_, _)
ReplaceRuns(s, inRun) ==
    IF s = <<>> THEN <<>>
    ELSE IF Head(s) \in AZ09 THEN <<Head(s)>> \o ReplaceRuns(Tail(s), FALSE)
    ELSE (IF inRun THEN <<>> ELSE <<"-">>) \o ReplaceRuns(Tail(s), TRUE)

\* .replace(/^-+|-+$/g, ''): leading and trailing hyphens are dropped.
RECURSIVE TrimLeft(_)
TrimLeft(s) == IF s # <<>> /\ Head(s) = "-" THEN TrimLeft(Tail(s)) ELSE s

RECURSIVE TrimRight(_)
TrimRight(s) ==
    IF s # <<>> /\ s[Len(s)] = "-" THEN TrimRight(SubSeq(s, 1, Len(s) - 1)) ELSE s

TrimHyphens(s) == Then(TrimLeft(s), LAMBDA l : TrimRight(l))

\* slug.replace(/-/g, '')
StripHyphens(s) == SelectSeq(s, LAMBDA c : c # "-")

\* Outcome of a call that may throw.
Returned(v) == [threw |-> FALSE, error |-> "", value |-> v]
Threw(msg) == [threw |-> TRUE, error |-> msg, value |-> <<>>]

\* The slug before the check: name.toLowerCase().replace(...).replace(...)
Slugify(name) ==
    Then(ToLowerCase(name), LAMBDA lower :
    Then(ReplaceRuns(lower, FALSE), LAMBDA hyphenated : TrimHyphens(hyphenated)))

\* generateSlug without the check of the result.
GenerateSlugNoCheck(name) == Returned(Slugify(name))

\* generateSlug without the lowercasing.
GenerateSlugNoLower(name) ==
    Then(TrimHyphens(ReplaceRuns(name, FALSE)), LAMBDA slug :
        IF slug = <<>> \/ Len(StripHyphens(slug)) = 0
        THEN Threw("Invalid slug generated")
        ELSE Returned(slug))

\* ProductService.generateSlug(name)
GenerateSlug(name) ==
    Then(Slugify(name), LAMBDA slug :
        IF slug = <<>> \/ Len(StripHyphens(slug)) = 0
        THEN Threw("Invalid slug generated")
        ELSE Returned(slug))

-----------------------------------------------------------------------------
(* The relational store of the catalog service, as the object mapper       *)
(* presents it: rows with auto-increment ids, model validation before an   *)
(* insert or update, unique indexes on products.slug and                   *)
(* product_variants.sku, and transactions.                                 *)

EmptyDb == [products |-> <<>>, variants |-> <<>>, images |-> <<>>]

\* A transaction: `db` is the committed store, `work` what statements run inside
\* the transaction see and write, `calls` the commit/rollback calls made on it,
\* `n` the number of insert statements issued so far.
NewTx(d) == [db |-> d, work |-> d, state |-> "open", calls |-> <<>>, n |-> 0]

Ok(S) == [S |-> S, threw |-> FALSE, error |-> "", id |-> 0]
Fail(S, msg) == [S |-> S, threw |-> TRUE, error |-> msg, id |-> 0]

\* Model validation of Product: name notEmpty and len [2, 255], basePrice min 0.
ProductValid(row) ==
    /\ Len(row.name) >= 2 /\ Len(row.name) <= 255
    /\ row.basePrice >= 0

\* products.slug without its unique index.
SlugNeverTaken(d, slug, exceptId) == FALSE

\* The unique index on products.slug: another row holds the slug.
SlugTaken(d, slug, exceptId) ==
    \E i \in 1..Len(d.products) : i # exceptId /\ d.products[i].slug = slug

\* The unique index on product_variants.sku.
SkuTaken(d, sku) == \E i \in 1..Len(d.variants) : d.variants[i].sku = sku

\* Product.create({...productData, slug}, {transaction}): the row is validated,
\* then inserted. `fault` is the number of the datastore statement of the call
\* at which the datastore raises an error (0: never).
ProductCreate(S, body, slug, fault) ==
    LET T == [S EXCEPT !.n = S.n + 1]
        row == [id |-> Len(S.work.products) + 1,
                name |-> Get(body.name),
                slug |-> slug,
                description |-> body.description,
                categoryId |-> body.categoryId,
                basePrice |-> Get(body.basePrice),
                isCustomizable |-> IF body.isCustomizable = None THEN FALSE
                                   ELSE Get(body.isCustomizable),
                isActive |-> IF body.isActive = None THEN TRUE ELSE Get(body.isActive),
                tags |-> body.tags]
    IN  IF ~ProductValid(row) THEN Fail(S, "Validation error")
        ELSE IF fault = T.n THEN Fail(T, "Database error")
        ELSE IF SlugTaken(T.work, slug, 0) THEN Fail(T, "Validation error")
        ELSE [Ok([T EXCEPT !.work.products = Append(@, row)]) EXCEPT !.id = row.id]

\* ProductVariant.create({...variantData, productId, sku}) outside the
\* transaction: the row is written to the committed store at once.
VariantCreateNoTx(S, v, productId, sku, fault) ==
    LET T == [S EXCEPT !.n = S.n + 1]
        row == [id |-> Len(S.work.variants) + 1, productId |-> productId, sku |-> sku,
                name |-> Get(v.name), price |-> Get(v.price), isActive |-> TRUE]
    IN  IF fault = T.n THEN Fail(T, "Database error")
        ELSE IF SkuTaken(T.work, sku) THEN Fail(T, "Validation error")
        ELSE [Ok([T EXCEPT !.work.variants = Append(@, row),
                           !.db.variants = Append(@, row)]) EXCEPT !.id = row.id]

\* ProductVariant.create({...variantData, productId, sku}, {transaction}).
VariantCreate(S, v, productId, sku, fault) ==
    LET T == [S EXCEPT !.n = S.n + 1]
        row == [id |-> Len(S.work.variants) + 1, productId |-> productId, sku |-> sku,
                name |-> Get(v.name), price |-> Get(v.price), isActive |-> TRUE]
    IN  IF fault = T.n THEN Fail(T, "Database error")
        ELSE IF SkuTaken(T.work, sku) THEN Fail(T, "Validation error")
        ELSE [Ok([T EXCEPT !.work.variants = Append(@, row)]) EXCEPT !.id = row.id]

\* ProductImage.create({...imageData, productId}, {transaction}).
ImageCreate(S, img, productId, fault) ==
    LET T == [S EXCEPT !.n = S.n + 1]
        row == [id |-> Len(S.work.images) + 1, productId |-> productId,
                imageUrl |-> Get(img.imageUrl),
                isPrimary |-> IF img.isPrimary = None THEN FALSE ELSE Get(img.isPrimary)]
    IN  IF fault = T.n THEN Fail(T, "Database error")
        ELSE [Ok([T EXCEPT !.work.images = Append(@, row)]) EXCEPT !.id = row.id]

\* transaction.commit() / transaction.rollback(). Either call on a transaction
\* that is already finished is rejected by the object mapper.
Commit(S) ==
    IF S.state # "open" THEN Fail([S EXCEPT !.calls = Append(@, "commit")], "Transaction finished")
    ELSE Ok([S EXCEPT !.db = S.work, !.state = "committed", !.calls = Append(@, "commit")])

Rollback(S) ==
    IF S.state # "open"
    THEN Fail([S EXCEPT !.calls = Append(@, "rollback")], "Transaction finished")
    ELSE Ok([S EXCEPT !.work = S.db, !.state = "rolledback", !.calls = Append(@, "rollback")])

-----------------------------------------------------------------------------
(* ProductService                                                          *)

\* JavaScript falsiness of an optional string (as a character sequence, or as
\* an opaque text) and of an optional number.
FalsyStr(o) == o = None \/ Get(o) = <<>>
FalsyText(o) == o = None \/ Get(o) = ""
FalsyNum(o) == o = None \/ Get(o) = 0

\* ProductService.generateSKU(productId) at time t: `PRD-${productId}-${Date.now()}`.
GenerateSKU(productId, t) == <<"PRD", productId, t>>

\* Result of a service call: `db` the committed store afterwards, `step` where
\* it threw, `value` what it returned, `calls` the commit/rollback calls made,
\* `n` the number of datastore statements of the call that a fault can hit.
SvcOk(d, v) ==
    [db |-> d, threw |-> FALSE, error |-> "", step |-> "", value |-> v, calls |-> <<>>,
     n |-> 0]
SvcThrow(d, msg, step) ==
    [db |-> d, threw |-> TRUE, error |-> msg, step |-> step, value |-> None,
     calls |-> <<>>, n |-> 0]

\* Product.findByPk(id, {include: [Category, ProductVariant where isActive, ProductImage]})
FindByPk(d, id) ==
    IF id \in 1..Len(d.products)
    THEN Some([product |-> d.products[id],
               variants |-> SelectSeq(d.variants, LAMBDA v : v.productId = id /\ v.isActive),
               images |-> SelectSeq(d.images, LAMBDA g : g.productId = id)])
    ELSE None

\* ProductService.getProductById(id)
GetProductById(d, id) ==
    LET found == FindByPk(d, id)
    IN  IF found = None THEN SvcThrow(d, "Product not found", "notFound")
        ELSE SvcOk(d, found)

\* The state of a createProduct call between its steps: the transaction S, the
\* clock t, the id of the product row, and the error thrown (with the step that
\* threw it), if any.
Step(S, t, pid) == [S |-> S, threw |-> FALSE, error |-> "", step |-> "", t |-> t, pid |-> pid]
StepThrow(R, msg, step) == [R EXCEPT !.threw = TRUE, !.error = msg, !.step = step]
AfterInsert(R, ins, step) ==
    IF ins.threw THEN StepThrow([R EXCEPT !.S = ins.S], ins.error, step)
    ELSE [R EXCEPT !.S = ins.S]

\* One round of the loop over productData.variants, dt after the previous one.
VariantStep(R, v, fault, dt) ==
    Then([R EXCEPT !.t = @ + dt], LAMBDA Q :
        IF FalsyText(v.name) \/ FalsyNum(v.price)
        THEN StepThrow(Q, "Each variant must have a name and price", "variant")
        ELSE Then(VariantCreate(Q.S, v, Q.pid,
                                IF v.sku # None THEN Get(v.sku)
                                ELSE GenerateSKU(Q.pid, Q.t),
                                fault),
                  LAMBDA ins : AfterInsert(Q, ins, "variantInsert")))

RECURSIVE CreateVariants(_, _, _, _, _)
CreateVariants(R, vs, i, fault, dts) ==
    IF R.threw \/ i > Len(vs) THEN R
    ELSE Then(VariantStep(R, vs[i], fault, dts[i]),
              LAMBDA Q : CreateVariants(Q, vs, i + 1, fault, dts))

\* One round of the loop over productData.images.
ImageStep(R, g, fault) ==
    IF FalsyText(g.imageUrl)
    THEN StepThrow(R, "Each image must have a valid imageUrl", "image")
    ELSE Then(ImageCreate(R.S, g, R.pid, fault),
              LAMBDA ins : AfterInsert(R, ins, "imageInsert"))

RECURSIVE CreateImages(_, _, _, _)
CreateImages(R, gs, i, fault) ==
    IF R.threw \/ i > Len(gs) THEN R
    ELSE Then(ImageStep(R, gs[i], fault), LAMBDA Q : CreateImages(Q, gs, i + 1, fault))

\* The check of the required fields, the slug and Product.create.
CreateProductRow(R, body, fault) ==
    IF FalsyStr(body.name) \/ FalsyNum(body.categoryId) \/ FalsyNum(body.basePrice)
    THEN StepThrow(R, "Name, category, and base price are required", "required")
    ELSE Then(GenerateSlug(Get(body.name)), LAMBDA slug :
            IF slug.threw THEN StepThrow(R, slug.error, "slug")
            ELSE Then(ProductCreate(R.S, body, slug.value, fault), LAMBDA ins :
                    AfterInsert([R EXCEPT !.pid = ins.id], ins, "productInsert")))

\* The try block of createProduct up to the last insert.
CreateProductInserts(d, body, fault, t0, dts) ==
    Then(CreateProductRow(Step(NewTx(d), t0, 0), body, fault), LAMBDA R1 :
    Then(IF body.variants = None THEN R1
         ELSE CreateVariants(R1, Get(body.variants), 1, fault, dts), LAMBDA R2 :
         IF body.images = None THEN R2
         ELSE CreateImages(R2, Get(body.images), 1, fault)))

SvcCaught(R, rb) ==
    [db |-> rb.S.db, threw |-> TRUE, error |-> IF rb.threw THEN rb.error ELSE R.error,
     step |-> R.step, value |-> None, calls |-> rb.S.calls, n |-> R.S.n, t |-> R.t]

\* catch (error) { await transaction.rollback(); throw error; }
CreateProductCatch(R) == Then(Rollback(R.S), LAMBDA rb : SvcCaught(R, rb))

\* await transaction.commit(); return await this.getProductById(product.id);
\* The read-back is one more datastore statement that `fault` can hit.
CreateProductCommit(R, fault) ==
    Then(Commit(R.S), LAMBDA cm :
        IF cm.threw THEN CreateProductCatch(StepThrow([R EXCEPT !.S = cm.S], cm.error, "commit"))
        ELSE Then([cm.S EXCEPT !.n = @ + 1], LAMBDA T :
             Then(IF fault = T.n THEN SvcThrow(T.db, "Database error", "readback")
                  ELSE GetProductById(T.db, R.pid), LAMBDA got :
                 IF got.threw
                 THEN CreateProductCatch(StepThrow([R EXCEPT !.S = T], got.error, "readback"))
                 ELSE [db |-> T.db, threw |-> FALSE, error |-> "", step |-> "",
                       value |-> got.value, calls |-> T.calls, n |-> T.n, t |-> R.t])))

\* ProductService.createProduct(productData) at time t0; dts[i] is the time that
\* passes before the i-th variant is handled.
CreateProduct(d, body, fault, t0, dts) ==
    Then(CreateProductInserts(d, body, fault, t0, dts), LAMBDA R :
        IF R.threw THEN CreateProductCatch(R) ELSE CreateProductCommit(R, fault))

\* instance.update(values): the supplied fields are assigned, the row is
\* validated and written; products.slug stays unique.
RowUpdate(d, id, upd) ==
    LET old == d.products[id]
        row == [old EXCEPT !.name = IF upd.name = None THEN @ ELSE Get(upd.name),
                           !.slug = IF upd.slug = None THEN @ ELSE Get(upd.slug),
                           !.basePrice = IF upd.basePrice = None THEN @
                                         ELSE Get(upd.basePrice),
                           !.isActive = IF upd.isActive = None THEN @
                                        ELSE Get(upd.isActive)]
    IN  IF ~ProductValid(row) THEN SvcThrow(d, "Validation error", "update")
        ELSE IF SlugTaken(d, row.slug, id) THEN SvcThrow(d, "Validation error", "update")
        ELSE SvcOk([d EXCEPT !.products[id] = row], None)

\* updateProduct that regenerates the slug whenever a name is supplied.
UpdateProductAlwaysSlug(d, id, updateData) ==
    IF FindByPk(d, id) = None THEN SvcThrow(d, "Product not found", "notFound")
    ELSE IF ~FalsyStr(updateData.name)
    THEN Then(GenerateSlug(Get(updateData.name)), LAMBDA slug :
            IF slug.threw THEN SvcThrow(d, slug.error, "slug")
            ELSE Then(RowUpdate(d, id, [updateData EXCEPT !.slug = Some(slug.value)]),
                      LAMBDA upd : IF upd.threw THEN upd ELSE GetProductById(upd.db, id)))
    ELSE Then(RowUpdate(d, id, updateData),
              LAMBDA upd : IF upd.threw THEN upd ELSE GetProductById(upd.db, id))

\* ProductService.updateProduct(id, updateData)
UpdateProduct(d, id, updateData) ==
    IF FindByPk(d, id) = None THEN SvcThrow(d, "Product not found", "notFound")
    ELSE IF ~FalsyStr(updateData.name) /\ Get(updateData.name) # d.products[id].name
    THEN Then(GenerateSlug(Get(updateData.name)), LAMBDA slug :
            IF slug.threw THEN SvcThrow(d, slug.error, "slug")
            ELSE Then(RowUpdate(d, id, [updateData EXCEPT !.slug = Some(slug.value)]),
                      LAMBDA upd : IF upd.threw THEN upd ELSE GetProductById(upd.db, id)))
    ELSE Then(RowUpdate(d, id, updateData),
              LAMBDA upd : IF upd.threw THEN upd ELSE GetProductById(upd.db, id))

\* deleteProduct that also removes the variants of the product.
DeleteProductCascade(d, id) ==
    IF FindByPk(d, id) = None THEN SvcThrow(d, "Product not found", "notFound")
    ELSE LET upd == RowUpdate(d, id, [name |-> None, slug |-> None, basePrice |-> None,
                                      isActive |-> Some(FALSE)])
         IN  IF upd.threw THEN upd
             ELSE [upd EXCEPT !.value = Some("Product deleted successfully"),
                              !.db.variants = SelectSeq(@, LAMBDA v : v.productId # id)]

\* ProductService.deleteProduct(id)
DeleteProduct(d, id) ==
    IF FindByPk(d, id) = None THEN SvcThrow(d, "Product not found", "notFound")
    ELSE LET upd == RowUpdate(d, id, [name |-> None, slug |-> None, basePrice |-> None,
                                      isActive |-> Some(FALSE)])
         IN  IF upd.threw THEN upd
             ELSE [upd EXCEPT !.value = Some("Product deleted successfully")]

-----------------------------------------------------------------------------
(* ProductService.getProducts                                              *)

\* Case folding of ILIKE, per character.
Fold(c) == IF c = "A" THEN "a" ELSE IF c = "B" THEN "b" ELSE c

\* `str ILIKE pattern`: "%" stands for any run of characters, "_" for any one.
RECURSIVE Like(_, _)
Like(pattern, str) ==
    IF pattern = <<>> THEN str = <<>>
    ELSE IF Head(pattern) = "%"
         THEN Like(Tail(pattern), str) \/ (str # <<>> /\ Like(pattern, Tail(str)))
    ELSE /\ str # <<>>
         /\ (Head(pattern) = "_" \/ Fold(Head(pattern)) = Fold(Head(str)))
         /\ Like(Tail(pattern), Tail(str))

\* The whereClause getProducts builds from the filters.
BuildWhere(filters) ==
    [isActive |-> Some(TRUE),
     categoryId |-> IF ~FalsyNum(filters.categoryId) THEN filters.categoryId ELSE None,
     iLike |-> IF ~FalsyStr(filters.search)
               THEN Some(<<"%">> \o Get(filters.search) \o <<"%">>) ELSE None,
     between |-> IF /\ filters.priceRange # None
                    /\ Get(filters.priceRange).min # None
                    /\ Get(filters.priceRange).max # None
                 THEN Some(<<Get(Get(filters.priceRange).min),
                             Get(Get(filters.priceRange).max)>>)
                 ELSE None,
     isCustomizable |-> filters.isCustomizable,
     contains |-> IF filters.tags # None /\ Cardinality(Get(filters.tags)) > 0
                  THEN filters.tags ELSE None]

\* The store's evaluation of a where clause on a product row (a conjunction).
RowMatches(row, where) ==
    /\ where.isActive # None => row.isActive = Get(where.isActive)
    /\ where.categoryId # None => row.categoryId = where.categoryId
    /\ where.iLike # None =>
          \/ Like(Get(where.iLike), row.name)
          \/ row.description # None /\ Like(Get(where.iLike), Get(row.description))
    /\ where.between # None =>
          /\ Get(where.between)[1] <= row.basePrice
          /\ row.basePrice <= Get(where.between)[2]
    /\ where.isCustomizable # None => row.isCustomizable = Get(where.isCustomizable)
    /\ where.contains # None =>
          row.tags # None /\ Get(where.contains) \subseteq Get(row.tags)

Reverse(s) == [i \in 1..Len(s) |-> s[Len(s) + 1 - i]]

\* The ids of the products that match, oldest first.
Matching(d, where) ==
    SelectSeq([i \in 1..Len(d.products) |-> i], LAMBDA i : RowMatches(d.products[i], where))

Window(hit, sortOrder, limit, offset) ==
    Then(IF sortOrder = "ASC" THEN hit ELSE Reverse(hit), LAMBDA ordered :
        SubSeq(ordered, offset + 1, Min(Len(ordered), offset + limit)))

\* findAndCountAll that counts the rows of the page instead of all matches.
FindAndCountAllPageCount(d, where, sortOrder, limit, offset) ==
    Then(Window(Matching(d, where), sortOrder, limit, offset), LAMBDA rows :
        [count |-> Len(rows), rows |-> rows])

\* Product.findAndCountAll({where, order: [['createdAt', sortOrder]], limit,
\* offset, distinct: true}): the count of all matching products and the rows
\* of the requested window, in creation order (ids grow with createdAt).
FindAndCountAll(d, where, sortOrder, limit, offset) ==
    Then(Matching(d, where), LAMBDA hit :
        [count |-> Len(hit), rows |-> Window(hit, sortOrder, limit, offset)])

\* Math.ceil(a / b) for a >= 0, b >= 1.
Ceil(a, b) == IF a % b = 0 THEN a \div b ELSE (a \div b) + 1

\* ProductService.getProducts(filters, pagination). The datastore of the
\* default dialect (mysql) refuses a query with a negative OFFSET or LIMIT.
GetProducts(d, filters, pagination) ==
    LET page == IF pagination.page = None THEN 1 ELSE Get(pagination.page)
        limit == IF pagination.limit = None THEN 20 ELSE Get(pagination.limit)
        offset == (page - 1) * limit
        sortOrder == IF filters.sortOrder = None THEN "DESC" ELSE Get(filters.sortOrder)
    IN  IF offset < 0 \/ limit < 0
        THEN SvcThrow(d, "Database error", "query")
        ELSE
        Then(BuildWhere(filters), LAMBDA where :
        Then(FindAndCountAll(d, where, sortOrder, limit, offset), LAMBDA found :
            SvcOk(d, Some([products |-> found.rows,
                           pagination |-> [page |-> page, limit |-> limit,
                                           totalPages |-> Ceil(found.count, limit),
                                           totalItems |-> found.count]]))))

-----------------------------------------------------------------------------
(* ProductController: the HTTP responses                                   *)

Response(status, success, error, message, data) ==
    [status |-> status, success |-> success, error |-> error, message |-> message,
     data |-> data]

\* ProductController.createProduct: 201 with the product, or 400 with the error.
CreateProductResponse(out) ==
    IF out.threw THEN Response(400, FALSE, out.error, "", None)
    ELSE Response(201, TRUE, "", "Product created successfully", out.value)

\* A getProduct whose 404 carries its text as message, not as error.
GetProductResponseMessage(out) ==
    IF out.threw THEN Response(404, FALSE, "", out.error, None)
    ELSE Response(200, TRUE, "", "", out.value)

\* ProductController.getProduct: 200 with the product, or 404 with the error.
GetProductResponse(out) ==
    IF out.threw THEN Response(404, FALSE, out.error, "", None)
    ELSE Response(200, TRUE, "", "", out.value)

\* ProductController.updateProduct: 200 with the product, or 400 with the error.
UpdateProductResponse(out) ==
    IF out.threw THEN Response(400, FALSE, out.error, "", None)
    ELSE Response(200, TRUE, "", "Product updated successfully", out.value)

\* ProductController.deleteProduct: 200 with the message, or 404 with the error.
DeleteProductResponse(out) ==
    IF out.threw THEN Response(404, FALSE, out.error, "", None)
    ELSE Response(200, TRUE, "", Get(out.value), None)

-----------------------------------------------------------------------------
(* Requests the catalog service is driven with                             *)

\* Most products the store holds, latest Date.now(), largest page and limit.
MaxProducts == 2
MaxNow == 1
MaxPage == 3
MaxLimit == 2

NoBody ==
    [name |-> None, slug |-> None, description |-> None, categoryId |-> None,
     basePrice |-> None, isCustomizable |-> None, isActive |-> None, tags |-> None,
     variants |-> None, images |-> None]

Plain(name, categoryId, basePrice) ==
    [NoBody EXCEPT !.name = name, !.categoryId = categoryId, !.basePrice = basePrice]

\* Four well-formed products. The second and third have names with the same slug.
Fixture1 == Plain(Some(<<"a", "1">>), Some(1), Some(5))
Fixture2 ==
    [Plain(Some(<<"a", " ", "1">>), Some(2), Some(20))
        EXCEPT !.isCustomizable = Some(TRUE), !.tags = Some({"t1"}),
               !.description = Some(<<"B">>), !.slug = Some(<<"x">>)]
Fixture3 ==
    [Plain(Some(<<"a", "-", "1">>), Some(1), Some(20)) EXCEPT !.tags = Some({"t1", "t2"})]
Fixture4 ==
    [Plain(Some(<<"U+212A", "U+212A">>), Some(2), Some(5)) EXCEPT !.isActive = Some(FALSE)]

\* Bodies that miss a required field, or whose name gives no slug or no valid row.
BadBodies ==
    {Plain(None, Some(1), Some(5)),
     Plain(Some(<<>>), Some(1), Some(5)),
     Plain(Some(<<"a", "1">>), None, Some(5)),
     Plain(Some(<<"a", "1">>), Some(1), None),
     Plain(Some(<<"a", "1">>), Some(1), Some(0)),
     Plain(Some(<<"a", "1">>), Some(1), Some(-1)),
     Plain(Some(<<"-", " ">>), Some(1), Some(5)),
     Plain(Some(<<"-", " ">>), None, Some(5)),
     Plain(Some(<<"U+00E9", "U+00E9">>), Some(1), Some(5)),
     Plain(Some(<<"a">>), Some(1), Some(5))}

Variant(name, price, sku) == [name |-> name, price |-> price, sku |-> sku]
VariantA == Variant(Some("Small"), Some(3), None)
VariantB == Variant(Some("Large"), Some(4), None)
VariantS == Variant(Some("Small"), Some(3), Some(<<"SKU-1">>))
VariantNoName == Variant(None, Some(3), None)
VariantFree == Variant(Some("Free"), Some(0), None)

VariantLists ==
    {<<VariantA, VariantB>>, <<VariantS, VariantS>>, <<VariantA, VariantNoName>>,
     <<VariantFree>>}

Image(url, primary) == [imageUrl |-> url, isPrimary |-> primary]
ImageA == Image(Some("https://example.com/1.jpg"), Some(TRUE))
ImageB == Image(Some("https://example.com/2.jpg"), None)
ImageNoUrl == Image(None, None)

ImageLists == {<<ImageA, ImageB>>, <<ImageA, ImageNoUrl>>}

Bodies ==
    {Fixture1, Fixture2} \cup BadBodies
    \cup {[Fixture1 EXCEPT !.variants = Some(vs)] : vs \in VariantLists}
    \cup {[Fixture3 EXCEPT !.images = Some(gs)] : gs \in ImageLists}
    \cup {[Fixture4 EXCEPT !.variants = Some(<<VariantS>>), !.images = Some(gs)] :
             gs \in {<<ImageA>>, <<ImageNoUrl>>}}

NoUpdate == [name |-> None, slug |-> None, basePrice |-> None, isActive |-> None]

Updates ==
    {[NoUpdate EXCEPT !.name = Some(<<"a", "-", "1">>)],
     [NoUpdate EXCEPT !.name = Some(<<" ", " ">>)],
     [NoUpdate EXCEPT !.slug = Some(<<"a", "1">>)],
     [NoUpdate EXCEPT !.basePrice = Some(-1)],
     [NoUpdate EXCEPT !.isActive = Some(TRUE)]}

NoFilters ==
    [categoryId |-> None, search |-> None, priceRange |-> None, isCustomizable |-> None,
     tags |-> None, sortOrder |-> None]

Filters ==
    {NoFilters,
     [NoFilters EXCEPT !.categoryId = Some(1)],
     [NoFilters EXCEPT !.search = Some(<<"A">>)],
     [NoFilters EXCEPT !.search = Some(<<"b">>), !.sortOrder = Some("ASC")],
     [NoFilters EXCEPT !.search = Some(<<"-">>)],
     [NoFilters EXCEPT !.search = Some(<<"a", "_", "1">>)],
     [NoFilters EXCEPT !.priceRange = Some([min |-> Some(0), max |-> Some(5)])],
     [NoFilters EXCEPT !.priceRange = Some([min |-> Some(10), max |-> None])],
     [NoFilters EXCEPT !.isCustomizable = Some(FALSE)],
     [NoFilters EXCEPT !.tags = Some({"t1"}), !.categoryId = Some(1)],
     [NoFilters EXCEPT !.tags = Some({}), !.sortOrder = Some("ASC")]}

Paginations ==
    {[page |-> None, limit |-> None]}
    \cup {[page |-> Some(p), limit |-> Some(l)] : p \in 1..MaxPage, l \in 1..MaxLimit}


\* Most datastore statements of a call before the one that fails.
MaxFault == 3

\* The exchange in progress: operation, arguments, the service's outcome, the
\* controller's response and the store before the call.
Call(op, args, out, res, pre) ==
    [op |-> op, args |-> args,
     out |-> [threw |-> out.threw, error |-> out.error, step |-> out.step,
              value |-> out.value, calls |-> out.calls],
     res |-> res, pre |-> pre]

NoCall == [op |-> "none"]

-----------------------------------------------------------------------------
(* The catalog service as a state machine. A request is handled in one     *)
(* step, from the store as it is to the response; the exchange then ends   *)
(* and the next request is taken.                                          *)

\* POST /products with a body of `bodies`
PostProductWith(bodies) ==
    /\ call = NoCall
    /\ Len(db.products) < MaxProducts
    /\ \E body \in bodies, fault \in 0..MaxFault :
      \E dts \in [1..(IF body.variants = None THEN 0 ELSE Len(Get(body.variants)))
                   -> 0..1] :
        \E out \in {CreateProduct(db, body, fault, now, dts)} :
            /\ out.t <= MaxNow
            /\ fault <= out.n
            /\ db' = out.db
            /\ now' = out.t
            /\ call' = Call("createProduct", [body |-> body, fault |-> fault],
                            out, CreateProductResponse(out), db)
            /\ UNCHANGED deleted

PostProduct == PostProductWith(Bodies)

\* GET /products/:id
GetProduct ==
    /\ call = NoCall
    /\ \E id \in 1..(MaxProducts + 1) :
        \E out \in {GetProductById(db, id)} :
            /\ call' = Call("getProduct", [id |-> id], out, GetProductResponse(out), db)
            /\ UNCHANGED <<db, now, deleted>>

\* PUT /products/:id
PutProduct ==
    /\ call = NoCall
    /\ \E id \in 1..(MaxProducts + 1), upd \in Updates :
        \E out \in {UpdateProduct(db, id, upd)} :
            /\ db' = out.db
            /\ call' = Call("updateProduct", [id |-> id, body |-> upd], out,
                            UpdateProductResponse(out), db)
            /\ deleted' = IF out.threw THEN deleted ELSE deleted \ {id}
            /\ UNCHANGED now

\* DELETE /products/:id
DeleteProductReq ==
    /\ call = NoCall
    /\ \E id \in 1..(MaxProducts + 1) :
        \E out \in {DeleteProduct(db, id)} :
            /\ db' = out.db
            /\ call' = Call("deleteProduct", [id |-> id], out,
                            DeleteProductResponse(out), db)
            /\ deleted' = IF out.threw THEN deleted ELSE deleted \cup {id}
            /\ UNCHANGED now

\* ProductService.getProducts(filters, pagination) with a page and limit >= 1
ListProducts ==
    /\ call = NoCall
    /\ \E filters \in Filters, pagination \in Paginations :
        \E out \in {GetProducts(db, filters, pagination)} :
            /\ call' = Call("getProducts",
                            [filters |-> filters, pagination |-> pagination], out,
                            Response(200, TRUE, "", "", out.value), db)
            /\ UNCHANGED <<db, now, deleted>>

\* The query string of GET /products. Numbers stand for their decimal text.
NoQuery ==
    [categoryId |-> None, search |-> None, minPrice |-> None, maxPrice |-> None,
     isCustomizable |-> None, tags |-> None, sortOrder |-> None, page |-> None,
     limit |-> None]

Queries ==
    {NoQuery,
     [NoQuery EXCEPT !.isCustomizable = Some("true")],
     [NoQuery EXCEPT !.isCustomizable = Some("false"), !.page = Some(0), !.limit = Some(0)],
     [NoQuery EXCEPT !.categoryId = Some(1), !.sortOrder = Some("ASC")],
     [NoQuery EXCEPT !.minPrice = Some(0), !.maxPrice = Some(5)],
     [NoQuery EXCEPT !.minPrice = Some(10)],
     [NoQuery EXCEPT !.tags = Some({"t1"}), !.search = Some(<<"A">>)],
     [NoQuery EXCEPT !.page = Some(2), !.limit = Some(1)],
     [NoQuery EXCEPT !.page = Some(-1)],
     [NoQuery EXCEPT !.limit = Some(-1)]}

\* The filters ProductController.getProducts builds from req.query.
QueryFilters(query) ==
    [categoryId |-> query.categoryId,
     search |-> query.search,
     priceRange |-> IF query.minPrice # None /\ query.maxPrice # None
                    THEN Some([min |-> query.minPrice, max |-> query.maxPrice])
                    ELSE None,
     isCustomizable |-> Some(query.isCustomizable = Some("true")),
     tags |-> query.tags,
     sortOrder |-> query.sortOrder]

\* parseInt(req.query.page) || 1 and parseInt(req.query.limit) || 20
QueryPagination(query) ==
    [page |-> IF FalsyNum(query.page) THEN Some(1) ELSE query.page,
     limit |-> IF FalsyNum(query.limit) THEN Some(20) ELSE query.limit]

\* ProductController.getProducts: 200 with the rows and the pagination, or 500
\* with the error.
GetProductsResponse(out) ==
    IF out.threw THEN Response(500, FALSE, out.error, "", None)
    ELSE Response(200, TRUE, "", "", out.value)

\* GET /products
GetProductsReq ==
    /\ call = NoCall
    /\ \E query \in Queries :
        \E out \in {GetProducts(db, QueryFilters(query), QueryPagination(query))} :
            /\ call' = Call("getProductsReq", [query |-> query], out,
                            GetProductsResponse(out), db)
            /\ UNCHANGED <<db, now, deleted>>

\* res.json(...) has sent the response: the exchange is over.
EndExchange ==
    /\ call # NoCall
    /\ call' = NoCall
    /\ UNCHANGED <<db, now, deleted>>

SlugIdle == slugArgs = <<>> /\ slugRets = <<>>
CatalogIdle == db = EmptyDb /\ now = 0 /\ call = NoCall /\ deleted = {}
NoHttp == [op |-> "none"]
UserIdle ==
    /\ users = <<>>
    /\ addresses = <<>>
    /\ pending = <<>>
    /\ issued = {}
    /\ clock = 0
    /\ http = NoHttp

Init == SlugIdle /\ CatalogIdle /\ UserIdle

Next ==
    \/ PostProduct /\ UNCHANGED <<slugVars, userVars>>
    \/ GetProduct /\ UNCHANGED <<slugVars, userVars>>
    \/ PutProduct /\ UNCHANGED <<slugVars, userVars>>
    \/ DeleteProductReq /\ UNCHANGED <<slugVars, userVars>>
    \/ ListProducts /\ UNCHANGED <<slugVars, userVars>>
    \/ GetProductsReq /\ UNCHANGED <<slugVars, userVars>>
    \/ EndExchange /\ UNCHANGED <<slugVars, userVars>>

Spec == Init /\ [][Next]_vars

-----------------------------------------------------------------------------
(* generateSlug on its own: it is applied to one name, and a product of    *)
(* that name is posted to the empty store; or it is applied to two names.  *)

\* ProductService.generateSlug(name) for the next name of slugArgs
SlugCall ==
    /\ Len(slugRets) < Len(slugArgs)
    /\ slugRets' = Append(slugRets, GenerateSlug(slugArgs[Len(slugRets) + 1]))
    /\ UNCHANGED slugArgs

\* POST /products with the name of slugArgs, with and without a category
PostNamed ==
    PostProductWith({Plain(Some(slugArgs[1]), c, Some(5)) : c \in {None, Some(1)}})

InitSlug ==
    /\ slugArgs \in {<<n>> : n \in Names(MaxNameLen)}
    /\ slugRets = <<>>
    /\ CatalogIdle /\ UserIdle

NextSlug ==
    \/ SlugCall /\ UNCHANGED <<catalogVars, userVars>>
    \/ PostNamed /\ UNCHANGED <<slugVars, userVars>>

SpecSlug == InitSlug /\ [][NextSlug]_vars

InitSlugPair ==
    /\ slugArgs \in {<<m, n>> : m \in Names(MaxPairLen), n \in Names(MaxPairLen)}
    /\ slugRets = <<>>
    /\ CatalogIdle /\ UserIdle

NextSlugPair == SlugCall /\ UNCHANGED <<catalogVars, userVars>>

SpecSlugPair == InitSlugPair /\ [][NextSlugPair]_vars

-----------------------------------------------------------------------------
(* The user service: /auth/register, /auth/login and the /profile routes   *)
(* behind the auth middleware.  Time is counted in half hours.             *)

MaxUsers == 2
MaxAddresses == 2
MaxPending == 2
MaxTokens == 2
MaxClock == 2

\* expiresIn: '1h'
ExpiresIn == 2

JWT_SECRET == "JWT_SECRET"

Roles == {"customer", "admin", "designer", "production"}

\* An error of a response: one message, or the list of messages of a validator.
Str(m) == [list |-> FALSE, msgs |-> <<m>>]
List(ms) == [list |-> TRUE, msgs |-> ms]
NoError == [list |-> FALSE, msgs |-> <<>>]

\* The body of a response of the user service and its status; message is ''
\* where the body has none.
Reply(status, error, data, token) ==
    [status |-> status, success |-> status < 400, error |-> error,
     data |-> data, token |-> token, message |-> ""]

\* A body field as the validators read it: a missing field reads as ''.
Text(o) == IF o = None THEN "" ELSE Get(o)

\* A validator that takes every text for an email.
IsEmailAny(e) == TRUE

\* The addresses the validators take for an email.
IsEmail(e) == e \in {"a@x.io", "b@x.io"}

Check(ok, msg) == IF ok THEN <<>> ELSE <<msg>>

\* validateRegister: the messages of the failed checks, in order
ValidateRegister(body) ==
    Check(IsEmail(Text(body.email)), "Invalid email format")
    \o Check(Len(Text(body.password)) >= 6, "Password must be at least 6 characters")
    \o Check(Len(Text(body.name)) \in 2..100, "Name must be between 2 and 100 characters")
    \o Check(body.role = None \/ Get(body.role) \in Roles,
             "Role must be one of: customer, admin, designer, production")

\* validateLogin
ValidateLogin(body) ==
    Check(IsEmail(Text(body.email)), "Invalid email format")
    \o Check(Text(body.password) # "", "Password is required")

\* A required string of a schema: missing, empty, or failing its rule.
JoiString(o, ok, required, empty, invalid) ==
    IF o = None THEN <<required>>
    ELSE IF Get(o) = "" THEN <<empty>>
    ELSE Check(ok, invalid)

JoiEmail(o) ==
    JoiString(o, IsEmail(Text(o)), "\"email\" is required",
              "\"email\" is not allowed to be empty", "\"email\" must be a valid email")

\* registerSchema.validate(body, {abortEarly: false}): the messages and the
\* value, in which a missing role is 'customer'
RegisterSchema(body) ==
    [errors |->
        JoiEmail(body.email)
        \o JoiString(body.password, Len(Text(body.password)) >= 6,
                     "\"password\" is required", "\"password\" is not allowed to be empty",
                     "\"password\" length must be at least 6 characters long")
        \o JoiString(body.name, Len(Text(body.name)) \in 2..100,
                     "\"name\" is required", "\"name\" is not allowed to be empty",
                     "\"name\" length must be between 2 and 100 characters long")
        \o Check(body.role = None \/ Get(body.role) \in Roles,
                 "\"role\" must be one of [customer, admin, designer, production]")
        \o Check(~body.extra, "\"extra\" is not allowed"),
     value |-> [body EXCEPT !.role = IF body.role = None THEN Some("customer") ELSE @]]

\* loginSchema.validate(body, {abortEarly: false})
LoginSchema(body) ==
    [errors |->
        JoiEmail(body.email)
        \o JoiString(body.password, TRUE, "\"password\" is required",
                     "\"password\" is not allowed to be empty", "")
        \o Check(~body.extra, "\"extra\" is not allowed"),
     value |-> body]

\* bcrypt.hash(password, 12) and bcrypt.compare(password, hash)
BcryptHash(password) == <<"$2a$12$", password>>

\* A comparison that accepts every password.
BcryptCompareAny(password, hash) == TRUE

BcryptCompare(password, hash) == hash = BcryptHash(password)

\* A lookup that never finds the email.
UserFindNone(us, email) == None

\* User.findOne({where: {email}})
UserFindOne(us, email) ==
    IF \E i \in 1..Len(us) : us[i].email = email
    THEN Some(us[CHOOSE i \in 1..Len(us) : us[i].email = email])
    ELSE None

\* A lookup that takes the first row whatever the key.
UserFindFirst(us, id) == IF us = <<>> THEN None ELSE Some(us[1])

\* User.findByPk(id)
UserFindByPk(us, id) == IF id \in 1..Len(us) THEN Some(us[id]) ELSE None

\* A User model without validators.
UserNeverInvalid(row, fields) == <<>>

\* The validators of the User model on the fields of `fields`.
UserInvalid(row, fields) ==
    (IF "email" \in fields
     THEN Check(IsEmail(row.email), "Invalid email format") ELSE <<>>)
    \o (IF "name" \in fields
        THEN Check(Len(row.name) \in 2..100, "Name must be between 2 and 100 characters")
        ELSE <<>>)
    \o (IF "role" \in fields
        THEN Check(row.role \in Roles,
                   "Role must be one of: customer, admin, designer, production")
        ELSE <<>>)

\* User.create(row): validation, the unique index on email, the next id
UserCreate(us, row) ==
    IF UserInvalid(row, {"email", "name", "role"}) # <<>>
       \/ \E i \in 1..Len(us) : us[i].email = row.email
    THEN [threw |-> TRUE, users |-> us, row |-> None]
    ELSE LET made == [id |-> Len(us) + 1, email |-> row.email, password |-> row.password,
                      name |-> row.name, role |-> row.role, isVerified |-> FALSE]
         IN  [threw |-> FALSE, users |-> Append(us, made), row |-> Some(made)]

\* AuthController.register from bcrypt.hash on: the create, and 201 with the
\* user's email, name and role, or 500 where the create throws
RegisterStore(us, value) ==
    LET made == UserCreate(us, [email |-> Get(value.email),
                                password |-> BcryptHash(Get(value.password)),
                                name |-> Get(value.name),
                                role |-> Get(value.role)])
    IN  IF made.threw
        THEN [users |-> us, res |-> Reply(500, Str("Server error"), None, None)]
        ELSE [users |-> made.users,
              res |-> Reply(201, NoError,
                            Some([email |-> Get(made.row).email,
                                  name |-> Get(made.row).name,
                                  role |-> Get(made.row).role]), None)]

\* AuthController.register, behind validateRegister
Register(us, body) ==
    IF ValidateRegister(body) # <<>>
    THEN [users |-> us, res |-> Reply(400, List(ValidateRegister(body)), None, None)]
    ELSE IF RegisterSchema(body).errors # <<>>
    THEN [users |-> us, res |-> Reply(400, List(RegisterSchema(body).errors), None, None)]
    ELSE LET value == RegisterSchema(body).value
         IN  IF UserFindOne(us, Get(value.email)) # None
             THEN [users |-> us, res |-> Reply(400, Str("Email already registered"), None, None)]
             ELSE RegisterStore(us, value)

\* The signature of jsonwebtoken over the header and payload of a token.
Signature(secret, payload, iat, exp) == <<secret, payload, iat, exp>>

\* jwt.sign(payload, secret, {expiresIn: '1h'}) at time t
JwtSign(payload, secret, t) ==
    [payload |-> payload, iat |-> t, exp |-> t + ExpiresIn,
     sig |-> Signature(secret, payload, t, t + ExpiresIn)]

\* A verification that does not look at the expiry.
JwtVerifyNoExpiry(token, secret, t) ==
    IF token.sig = Signature(secret, token.payload, token.iat, token.exp)
    THEN Some([id |-> token.payload.id, email |-> token.payload.email,
               role |-> token.payload.role, iat |-> token.iat, exp |-> token.exp])
    ELSE None

\* jwt.verify(token, secret) at time t: the decoded claims, or None where it throws
JwtVerify(token, secret, t) ==
    IF token.sig = Signature(secret, token.payload, token.iat, token.exp) /\ t < token.exp
    THEN Some([id |-> token.payload.id, email |-> token.payload.email,
               role |-> token.payload.role, iat |-> token.iat, exp |-> token.exp])
    ELSE None

\* AuthController.login, behind validateLogin, at time t
Login(us, body, t) ==
    IF ValidateLogin(body) # <<>>
    THEN Reply(400, List(ValidateLogin(body)), None, None)
    ELSE IF LoginSchema(body).errors # <<>>
    THEN Reply(400, List(LoginSchema(body).errors), None, None)
    ELSE LET user == UserFindOne(us, Get(body.email))
         IN  IF user = None
             THEN Reply(401, Str("Invalid credentials"), None, None)
             ELSE IF ~BcryptCompare(Get(body.password), Get(user).password)
             THEN Reply(401, Str("Invalid credentials"), None, None)
             ELSE Reply(200, NoError, None,
                        Some(JwtSign([id |-> Get(user).id, email |-> Get(user).email,
                                      role |-> Get(user).role], JWT_SECRET, t)))

\* The Authorization header is the text before the token (a sequence of words
\* such as 'Bearer ') and the token, if any.
RECURSIVE RemoveFirst(_, _)
RemoveFirst(words, w) ==
    IF words = <<>> THEN <<>>
    ELSE IF Head(words) = w THEN Tail(words)
    ELSE <<Head(words)>> \o RemoveFirst(Tail(words), w)

\* authHeader?.replace('Bearer ', '')
BearerToken(header) ==
    IF header = None THEN None
    ELSE Some([Get(header) EXCEPT !.scheme = RemoveFirst(@, "Bearer ")])

\* auth(req, res, next) at time t: the request goes on with req.user, or is
\* answered here
Auth(header, t) ==
    LET token == BearerToken(header)
    IN  IF token = None \/ (Get(token).scheme = <<>> /\ Get(token).token = None)
        THEN [next |-> FALSE, user |-> None,
              res |-> Reply(401, Str("No token provided"), None, None)]
        ELSE LET decoded == IF Get(token).scheme = <<>>
                            THEN JwtVerify(Get(Get(token).token), JWT_SECRET, t)
                            ELSE None
             IN  IF decoded = None
                 THEN [next |-> FALSE, user |-> None,
                       res |-> Reply(401, Str("Invalid token"), None, None)]
                 ELSE [next |-> TRUE, user |-> decoded, res |-> Reply(200, NoError, None, None)]

\* A gate that lets every authenticated request through.
RequireRoleAnyUser(roles, user) ==
    IF user = None
    THEN [next |-> FALSE, res |-> Reply(403, Str("Forbidden"), None, None)]
    ELSE [next |-> TRUE, res |-> Reply(200, NoError, None, None)]

\* requireRole(...roles) for req.user (None where auth has not set it)
RequireRole(roles, user) ==
    IF user = None \/ Get(user).role \notin roles
    THEN [next |-> FALSE, res |-> Reply(403, Str("Forbidden"), None, None)]
    ELSE [next |-> TRUE, res |-> Reply(200, NoError, None, None)]

\* Address.findAll({where: {userId}}), and the addresses a user includes
AddressFindAll(as, userId) == SelectSeq(as, LAMBDA a : a.userId = userId)

\* ProfileController.getProfile for req.user
GetProfile(us, as, user) ==
    LET found == UserFindByPk(us, user.id)
    IN  IF found = None
        THEN Reply(404, Str("User not found"), None, None)
        ELSE Reply(200, NoError,
                   Some([id |-> Get(found).id, email |-> Get(found).email,
                         name |-> Get(found).name, role |-> Get(found).role,
                         addresses |-> AddressFindAll(as, Get(found).id)]), None)

\* An update that sets every column the values name.
UserUpdateAll(row, values, fields) ==
    [f \in DOMAIN row |-> IF values[f] # None THEN Get(values[f]) ELSE row[f]]

\* user.update(values, {fields}): the row with the columns of `fields` that the
\* values name set to them
UserUpdate(row, values, fields) ==
    [f \in DOMAIN row |-> IF f \in fields /\ values[f] # None THEN Get(values[f]) ELSE row[f]]

\* ProfileController.updateProfile for req.user: user.update(body, {fields:
\* ['name', 'role']})
UpdateProfile(us, user, body) ==
    LET found == UserFindByPk(us, user.id)
    IN  IF found = None
        THEN [users |-> us, res |-> Reply(404, Str("User not found"), None, None)]
        ELSE LET row == UserUpdate(Get(found), body, {"name", "role"})
                 bad == UserInvalid(row, {"name" : x \in body.name} \cup {"role" : x \in body.role})
             IN  IF bad # <<>>
                 THEN [users |-> us, res |-> Reply(400, Str(bad[1]), None, None)]
                 ELSE [users |-> [us EXCEPT ![row.id] = row],
                       res |-> Reply(200, NoError, Some(row), None)]

\* The validators of the Address model: a required column that is missing, or
\* empty, in the order of the columns.
AddressInvalid(row) ==
    LET required == <<"line1", "city", "state", "zip", "country">>
        notNull == [line1 |-> "notNull Violation: Address.line1 cannot be null",
                    city |-> "notNull Violation: Address.city cannot be null",
                    state |-> "notNull Violation: Address.state cannot be null",
                    zip |-> "notNull Violation: Address.zip cannot be null",
                    country |-> "notNull Violation: Address.country cannot be null"]
        notEmpty == [line1 |-> "Validation error: Line1 is required",
                     city |-> "Validation error: City is required",
                     state |-> "Validation error: State is required",
                     zip |-> "Validation error: Zip code is required",
                     country |-> "Validation error: Country is required"]
        bad == SelectSeq(required, LAMBDA c : row[c] \in {None, Some("")})
    IN  [i \in 1..Len(bad) |->
            IF row[bad[i]] = None THEN notNull[bad[i]] ELSE notEmpty[bad[i]]]

\* Address.create(values): validation, the next id
AddressCreate(as, values) ==
    IF AddressInvalid(values) # <<>>
    THEN [threw |-> TRUE, error |-> [list |-> FALSE, msgs |-> AddressInvalid(values)],
          addresses |-> as, row |-> None]
    ELSE LET made == [id |-> Len(as) + 1, userId |-> Get(values.userId),
                      line1 |-> Get(values.line1), line2 |-> values.line2,
                      city |-> Get(values.city), state |-> Get(values.state),
                      zip |-> Get(values.zip), country |-> Get(values.country)]
         IN  [threw |-> FALSE, error |-> NoError, addresses |-> Append(as, made),
              row |-> Some(made)]

\* An addAddress in which the body's userId wins: {userId: req.user.id, ...req.body}
AddAddressBodyOwner(as, user, body) ==
    LET made == AddressCreate(as, [body EXCEPT !.userId = IF @ = None THEN Some(user.id) ELSE @])
    IN  IF made.threw
        THEN [addresses |-> as, res |-> Reply(400, made.error, None, None)]
        ELSE [addresses |-> made.addresses, res |-> Reply(201, NoError, made.row, None)]

\* ProfileController.addAddress for req.user: Address.create({...req.body,
\* userId: req.user.id})
AddAddress(as, user, body) ==
    LET made == AddressCreate(as, [body EXCEPT !.userId = Some(user.id)])
    IN  IF made.threw
        THEN [addresses |-> as, res |-> Reply(400, made.error, None, None)]
        ELSE [addresses |-> made.addresses, res |-> Reply(201, NoError, made.row, None)]

\* ProfileController.getAddresses for req.user
GetAddresses(as, user) == Reply(200, NoError, Some(AddressFindAll(as, user.id)), None)

\* Inputs of the user service

Credentials(email, password, name, role) ==
    [email |-> email, password |-> password, name |-> name, role |-> role, extra |-> FALSE]

GoodRegistrations ==
    {Credentials(Some("a@x.io"), Some("secret1"), Some("Al"), None),
     Credentials(Some("a@x.io"), Some("secret2"), Some("Al"), Some("admin")),
     Credentials(Some("b@x.io"), Some("secret2"), Some("Bo"), None),
     Credentials(Some("b@x.io"), Some("secret1"), Some("Al"), Some("designer"))}

BadRegistrations ==
    LET long ==
            "NNNNNNNNNNNNNNNNNNNNNNNNNNNNNNNNNNNNNNNNNNNNNNNNNNNNNNNNNNNNNNNNNNNNNNNNNNNNNNNNNNNNNNNNNNNNNNNNNNNNN"
    IN
        {Credentials(e, Some("secret1"), Some("Al"), None) : e \in {None, Some(""), Some("a.x.io")}}
        \cup {Credentials(Some("a@x.io"), p, Some("Al"), None) : p \in {None, Some(""), Some("12345")}}
        \cup {Credentials(Some("a@x.io"), Some("secret1"), n, None) :
                n \in {None, Some("A"), Some(long)}}
        \cup {Credentials(Some("b@x.io"), Some("12345"), Some("B"), Some("root")),
              Credentials(Some("b@x.io"), Some("secret1"), Some("Bo"), Some("root")),
              [Credentials(Some("a@x.io"), Some("secret1"), Some("Al"), None) EXCEPT !.extra = TRUE]}

Logins ==
    {[email |-> e, password |-> p, extra |-> FALSE] :
        e \in {None, Some("a.x.io"), Some("a@x.io"), Some("b@x.io")},
        p \in {None, Some(""), Some("secret1"), Some("secret2")}}
    \cup {[email |-> Some("a@x.io"), password |-> Some("secret1"), extra |-> TRUE]}

\* The bodies of PUT /profile: a promotion, a too short name, an unknown role,
\* and a rename and demotion that also names the columns a client may not set.
ProfileUpdates ==
    LET none == [id |-> None, email |-> None, password |-> None, name |-> None,
                 role |-> None, isVerified |-> None]
    IN  {[none EXCEPT !.role = Some("admin")],
         [none EXCEPT !.name = Some("A")],
         [none EXCEPT !.name = Some("Cy"), !.role = Some("root")],
         [id |-> Some(2), email |-> Some("b@x.io"),
          password |-> Some(BcryptHash("secret2")), name |-> Some("Al"),
          role |-> Some("customer"), isVerified |-> Some(TRUE)]}

\* The bodies of POST /profile/addresses: an address, the same under the userId
\* of each user, and one without city and with an empty zip.
AddressBodies ==
    LET home == [userId |-> None, line1 |-> Some("1 Main St"), line2 |-> None,
                 city |-> Some("Pune"), state |-> Some("MH"), zip |-> Some("411001"),
                 country |-> Some("IN")]
    IN  {home, [home EXCEPT !.userId = Some(1)], [home EXCEPT !.userId = Some(2)],
         [home EXCEPT !.city = None, !.zip = Some("")]}

\* What is not a token at all.
Junk ==
    LET nobody == [id |-> 0, email |-> "", role |-> ""]
    IN  [payload |-> nobody, iat |-> 0, exp |-> 0, sig |-> Signature("", nobody, 0, 0)]

Header(scheme, token) == Some([scheme |-> scheme, token |-> token])

\* The Authorization headers a client can send, given the tokens issued: none,
\* an empty one, a scheme without token, an issued token under several schemes,
\* and a token signed with another secret, altered after signing, or malformed.
Headers(known) ==
    {None, Header(<<>>, None), Header(<<"Bearer ">>, None)}
    \cup {Header(s, Some(g.token)) :
            s \in {<<"Bearer ">>, <<>>, <<"Basic ">>, <<"Bearer ", "Bearer ">>}, g \in known}
    \cup {Header(<<"Bearer ">>, Some(JwtSign(g.token.payload, "other", g.token.iat))) : g \in known}
    \cup {Header(<<"Bearer ">>, Some([g.token EXCEPT !.payload.id = 3 - @])) : g \in known}
    \cup {Header(<<"Bearer ">>, Some(Junk))}

\* One exchange of the user service: the request, the reply, the users and
\* tokens before it, the time, the handler that ran and its req.user.
Exchange(op, args, res, handler, user) ==
    [op |-> op, args |-> args, res |-> res,
     pre |-> [users |-> users, addresses |-> addresses, issued |-> issued],
     at |-> clock, handler |-> handler, user |-> user]

\* POST /auth/register
RegisterReq ==
    /\ http = NoHttp
    /\ \E body \in GoodRegistrations \cup BadRegistrations :
        \E out \in {Register(users, body)} :
            /\ Len(out.users) <= MaxUsers
            /\ users' = out.users
            /\ http' = Exchange("register", [body |-> body], out.res, "register", None)
    /\ UNCHANGED <<issued, clock, addresses, pending>>

\* POST /auth/login
LoginReq ==
    /\ http = NoHttp
    /\ \E body \in Logins :
        \E res \in {Login(users, body, clock)} :
            /\ issued' = issued \cup {[token |-> t, email |-> Get(body.email)] : t \in res.token}
            /\ Cardinality(issued') <= MaxTokens
            /\ http' = Exchange("login", [body |-> body], res, "login", None)
    /\ UNCHANGED <<users, clock, addresses, pending>>

\* GET /profile
GetProfileReq ==
    /\ http = NoHttp
    /\ \E header \in Headers(issued) :
        \E a \in {Auth(header, clock)} :
            http' = IF a.next
                    THEN Exchange("getProfile", [header |-> header],
                                  GetProfile(users, addresses, Get(a.user)), "getProfile",
                                  a.user)
                    ELSE Exchange("getProfile", [header |-> header], a.res, "none", None)
    /\ UNCHANGED <<users, issued, clock, addresses, pending>>

\* PUT /profile
UpdateProfileReq ==
    /\ http = NoHttp
    /\ \E header \in {None} \cup {Header(<<"Bearer ">>, Some(g.token)) : g \in issued},
          body \in ProfileUpdates :
        \E a \in {Auth(header, clock)} :
            IF a.next
            THEN \E out \in {UpdateProfile(users, Get(a.user), body)} :
                    /\ users' = out.users
                    /\ http' = Exchange("updateProfile", [header |-> header, body |-> body],
                                        out.res, "updateProfile", a.user)
            ELSE /\ users' = users
                 /\ http' = Exchange("updateProfile", [header |-> header, body |-> body],
                                     a.res, "none", None)
    /\ UNCHANGED <<issued, clock, addresses, pending>>

\* POST /profile/addresses
AddAddressReq ==
    /\ http = NoHttp
    /\ \E header \in {None} \cup {Header(<<"Bearer ">>, Some(g.token)) : g \in issued},
          body \in AddressBodies :
        \E a \in {Auth(header, clock)} :
            IF a.next
            THEN \E out \in {AddAddress(addresses, Get(a.user), body)} :
                    /\ Len(out.addresses) <= MaxAddresses
                    /\ addresses' = out.addresses
                    /\ http' = Exchange("addAddress", [header |-> header, body |-> body],
                                        out.res, "addAddress", a.user)
            ELSE /\ addresses' = addresses
                 /\ http' = Exchange("addAddress", [header |-> header, body |-> body],
                                     a.res, "none", None)
    /\ UNCHANGED <<users, pending, issued, clock>>

\* GET /profile/addresses
GetAddressesReq ==
    /\ http = NoHttp
    /\ \E header \in {None} \cup {Header(<<"Bearer ">>, Some(g.token)) : g \in issued} :
        \E a \in {Auth(header, clock)} :
            http' = IF a.next
                    THEN Exchange("getAddresses", [header |-> header],
                                  GetAddresses(addresses, Get(a.user)), "getAddresses", a.user)
                    ELSE Exchange("getAddresses", [header |-> header], a.res, "none", None)
    /\ UNCHANGED <<users, addresses, pending, issued, clock>>

\* GET /profile/admin: auth, then requireRole('admin'), then the handler
AdminReq ==
    /\ http = NoHttp
    /\ \E header \in Headers(issued) :
        \E a \in {Auth(header, clock)} :
            http' = IF ~a.next
                    THEN Exchange("admin", [header |-> header], a.res, "none", None)
                    ELSE IF ~RequireRole({"admin"}, a.user).next
                    THEN Exchange("admin", [header |-> header],
                                  RequireRole({"admin"}, a.user).res, "none", a.user)
                    ELSE Exchange("admin", [header |-> header],
                                  [Reply(200, NoError, None, None)
                                      EXCEPT !.message = "Admin access granted"],
                                  "admin", a.user)
    /\ UNCHANGED <<users, issued, clock, addresses, pending>>

\* Half an hour passes.
Tick ==
    /\ http = NoHttp
    /\ clock < MaxClock
    /\ clock' = clock + 1
    /\ UNCHANGED <<users, issued, http, addresses, pending>>

\* The reply has been delivered.
EndHttp ==
    /\ http # NoHttp
    /\ http' = NoHttp
    /\ UNCHANGED <<users, issued, clock, addresses, pending>>

NextUser ==
    \/ RegisterReq /\ UNCHANGED <<slugVars, catalogVars>>
    \/ LoginReq /\ UNCHANGED <<slugVars, catalogVars>>
    \/ GetProfileReq /\ UNCHANGED <<slugVars, catalogVars>>
    \/ UpdateProfileReq /\ UNCHANGED <<slugVars, catalogVars>>
    \/ AdminReq /\ UNCHANGED <<slugVars, catalogVars>>
    \/ Tick /\ UNCHANGED <<slugVars, catalogVars>>
    \/ EndHttp /\ UNCHANGED <<slugVars, catalogVars>>

SpecUser == Init /\ [][NextUser]_vars

\* POST /auth/register up to its first await that another request can overtake:
\* the body has passed the validators and findOne has found no user of the email.
RegisterFind ==
    /\ http = NoHttp
    /\ Len(pending) < MaxPending
    /\ \E body \in GoodRegistrations \cup BadRegistrations :
        /\ ValidateRegister(body) = <<>>
        /\ RegisterSchema(body).errors = <<>>
        /\ UserFindOne(users, Get(body.email)) = None
        /\ pending' = Append(pending, body)
    /\ UNCHANGED <<users, addresses, issued, clock, http>>

\* The rest of a registration in flight: the hash, the create and the response.
RegisterCreate ==
    /\ http = NoHttp
    /\ \E k \in 1..Len(pending) :
        \E out \in {RegisterStore(users, RegisterSchema(pending[k]).value)} :
            /\ Len(out.users) <= MaxUsers
            /\ users' = out.users
            /\ http' = Exchange("register", [body |-> pending[k]], out.res, "register", None)
            /\ pending' = SubSeq(pending, 1, k - 1) \o SubSeq(pending, k + 1, Len(pending))
    /\ UNCHANGED <<addresses, issued, clock>>

\* Registrations that overlap: any number of them may have run their findOne
\* before one of them runs its create.
NextRace ==
    \/ RegisterReq /\ UNCHANGED <<slugVars, catalogVars>>
    \/ RegisterFind /\ UNCHANGED <<slugVars, catalogVars>>
    \/ RegisterCreate /\ UNCHANGED <<slugVars, catalogVars>>
    \/ EndHttp /\ UNCHANGED <<slugVars, catalogVars>>

SpecRace == Init /\ [][NextRace]_vars

\* Every endpoint of the two services, one request at a time, with no time
\* passing: the catalog is used while the user service is untouched, and the
\* user service while the catalog is.
NextAll ==
    \/ UserIdle /\ PostProduct /\ UNCHANGED <<slugVars, userVars>>
    \/ UserIdle /\ GetProduct /\ UNCHANGED <<slugVars, userVars>>
    \/ UserIdle /\ PutProduct /\ UNCHANGED <<slugVars, userVars>>
    \/ UserIdle /\ DeleteProductReq /\ UNCHANGED <<slugVars, userVars>>
    \/ UserIdle /\ GetProductsReq /\ UNCHANGED <<slugVars, userVars>>
    \/ UserIdle /\ EndExchange /\ UNCHANGED <<slugVars, userVars>>
    \/ CatalogIdle /\ RegisterReq /\ UNCHANGED <<slugVars, catalogVars>>
    \/ CatalogIdle /\ LoginReq /\ UNCHANGED <<slugVars, catalogVars>>
    \/ CatalogIdle /\ GetProfileReq /\ UNCHANGED <<slugVars, catalogVars>>
    \/ CatalogIdle /\ UpdateProfileReq /\ UNCHANGED <<slugVars, catalogVars>>
    \/ CatalogIdle /\ AddAddressReq /\ UNCHANGED <<slugVars, catalogVars>>
    \/ CatalogIdle /\ GetAddressesReq /\ UNCHANGED <<slugVars, catalogVars>>
    \/ CatalogIdle /\ AdminReq /\ UNCHANGED <<slugVars, catalogVars>>
    \/ CatalogIdle /\ EndHttp /\ UNCHANGED <<slugVars, catalogVars>>

SpecAll == Init /\ [][NextAll]_vars

\* The address book: users register, log in, and add and read addresses.
NextAddr ==
    \/ RegisterReq /\ UNCHANGED <<slugVars, catalogVars>>
    \/ LoginReq /\ UNCHANGED <<slugVars, catalogVars>>
    \/ AddAddressReq /\ UNCHANGED <<slugVars, catalogVars>>
    \/ GetAddressesReq /\ UNCHANGED <<slugVars, catalogVars>>
    \/ GetProfileReq /\ UNCHANGED <<slugVars, catalogVars>>
    \/ EndHttp /\ UNCHANGED <<slugVars, catalogVars>>

SpecAddr == Init /\ [][NextAddr]_vars

-----------------------------------------------------------------------------
(* Properties of the catalog service                                       *)

\* C1 (as claimed): once DELETE /products/:id has succeeded for a product and
\* no update of it has happened since, GET /products/:id for that id answers
\* 404 'Product not found'.
C1_DeletedProductIsNotFound ==
    (call.op = "getProduct" /\ call.args.id \in deleted)
        => (call.res.status = 404 /\ call.res.error = "Product not found")

\* The steps of createProduct that claim C2 names: the checks of the body and
\* the three kinds of insert.
BeforeCommit ==
    {"required", "slug", "variant", "image", "productInsert", "variantInsert",
     "imageInsert"}

Supplied(list) == IF list = None THEN <<>> ELSE Get(list)

\* The rows of `rows` from position k on.
From(rows, k) == SubSeq(rows, k, Len(rows))

\* C2: createProduct is all-or-nothing. A call that fails at a check of the body
\* or at an insert rolls its transaction back and leaves the store as it was; a
\* call that succeeds has added one product row and, for that product, one
\* variant row per supplied variant and one image row per supplied image, in
\* the order supplied, and nothing else.
C2_CreateProductAllOrNothing ==
    call.op = "createProduct" =>
        /\ (call.out.threw /\ call.out.step \in BeforeCommit) =>
              (db = call.pre /\ call.out.calls = <<"rollback">>)
        /\ ~call.out.threw =>
              LET pid == Len(call.pre.products) + 1
                  vs == Supplied(call.args.body.variants)
                  gs == Supplied(call.args.body.images)
                  newV == From(db.variants, Len(call.pre.variants) + 1)
                  newG == From(db.images, Len(call.pre.images) + 1)
              IN  /\ call.out.calls = <<"commit">>
                  /\ Len(db.products) = pid
                  /\ db.products[pid].name = Get(call.args.body.name)
                  /\ SubSeq(db.products, 1, pid - 1) = call.pre.products
                  /\ SubSeq(db.variants, 1, Len(call.pre.variants)) = call.pre.variants
                  /\ SubSeq(db.images, 1, Len(call.pre.images)) = call.pre.images
                  /\ Len(newV) = Len(vs)
                  /\ \A i \in 1..Len(vs) :
                        /\ newV[i].productId = pid
                        /\ newV[i].name = Get(vs[i].name)
                        /\ newV[i].price = Get(vs[i].price)
                  /\ Len(newG) = Len(gs)
                  /\ \A i \in 1..Len(gs) :
                        /\ newG[i].productId = pid
                        /\ newG[i].imageUrl = Get(gs[i].imageUrl)

\* C2 witness: an insert failed after earlier inserts of the same call had been
\* made in the transaction.
C2_Witness ==
    /\ call.op = "createProduct"
    /\ call.out.threw
    /\ call.out.step \in {"variantInsert", "imageInsert"}
    /\ call.args.fault >= 2

\* The reading of the filters that claim C7 counts by: an absent filter (and a
\* price range without both ends) constrains nothing.
FilterMatches(row, f) ==
    /\ (f.categoryId # None /\ Get(f.categoryId) # 0) => row.categoryId = f.categoryId
    /\ (f.search # None /\ Get(f.search) # <<>>) =>
          \/ Like(<<"%">> \o Get(f.search) \o <<"%">>, row.name)
          \/ row.description # None
                /\ Like(<<"%">> \o Get(f.search) \o <<"%">>, Get(row.description))
    /\ (f.priceRange # None /\ Get(f.priceRange).min # None
            /\ Get(f.priceRange).max # None) =>
          /\ row.basePrice >= Get(Get(f.priceRange).min)
          /\ row.basePrice <= Get(Get(f.priceRange).max)
    /\ f.isCustomizable # None => row.isCustomizable = Get(f.isCustomizable)
    /\ f.tags # None => (Get(f.tags) = {} \/ (row.tags # None /\ Get(f.tags) \subseteq Get(row.tags)))

ActiveMatches(d, f) ==
    {i \in 1..Len(d.products) : d.products[i].isActive /\ FilterMatches(d.products[i], f)}

\* C7: for a page >= 1 and a limit >= 1 (1 and 20 when not given), getProducts
\* reports totalItems = the number of active products matching the filters,
\* totalPages = ceil(totalItems / limit), the page and limit asked for, and
\* min(limit, max(0, totalItems - (page - 1) * limit)) rows.
C7_PaginationMatchesRows ==
    call.op = "getProducts" =>
        LET asked == call.args.pagination
            page == IF asked.page = None THEN 1 ELSE Get(asked.page)
            limit == IF asked.limit = None THEN 20 ELSE Get(asked.limit)
            total == Cardinality(ActiveMatches(db, call.args.filters))
            got == Get(call.out.value)
        IN  /\ ~call.out.threw
            /\ got.pagination.totalItems = total
            /\ got.pagination.totalPages * limit >= total
            /\ (got.pagination.totalPages - 1) * limit < total
            /\ got.pagination.totalPages >= 0
            /\ got.pagination.page = page
            /\ got.pagination.limit = limit
            /\ Len(got.products) = Min(limit, Max(0, total - (page - 1) * limit))

\* C7 witness: the second page of a filtered listing that has two matches.
C7_Witness ==
    /\ call.op = "getProducts"
    /\ call.args.filters.categoryId = Some(1)
    /\ call.args.pagination = [page |-> Some(2), limit |-> Some(1)]
    /\ Get(call.out.value).pagination.totalItems = 2
    /\ Len(Get(call.out.value).products) = 1

UniqueSlugs(d) ==
    \A i, j \in 1..Len(d.products) : d.products[i].slug = d.products[j].slug => i = j

UniqueSkus(d) ==
    \A i, j \in 1..Len(d.variants) : d.variants[i].sku = d.variants[j].sku => i = j

\* The slug a create or update is about to store, if it gets that far.
SlugOfCreate(body) == Slugify(Get(body.name))
SlugOfUpdate(pre, id, upd) ==
    IF upd.name # None /\ Get(upd.name) # <<>> /\ Get(upd.name) # pre.products[id].name
    THEN Slugify(Get(upd.name))
    ELSE IF upd.slug # None THEN Get(upd.slug) ELSE pre.products[id].slug

\* The skus a create names itself (generated ones aside).
NamedSkus(body) ==
    LET vs == Supplied(body.variants)
    IN  [i \in {k \in 1..Len(vs) : vs[k].sku # None} |-> Get(vs[i].sku)]

\* The call of `call` would put a second row with a slug or sku already stored,
\* or two rows with the same sku.
WouldDuplicate ==
    \/ /\ call.op = "createProduct"
       /\ call.args.body.name # None
       /\ \/ \E i \in 1..Len(call.pre.products) :
                call.pre.products[i].slug = SlugOfCreate(call.args.body)
          \/ LET skus == NamedSkus(call.args.body)
             IN  \/ \E i, j \in DOMAIN skus : i # j /\ skus[i] = skus[j]
                 \/ \E i \in DOMAIN skus, k \in 1..Len(call.pre.variants) :
                        call.pre.variants[k].sku = skus[i]
    \/ /\ call.op = "updateProduct"
       /\ call.args.id \in 1..Len(call.pre.products)
       /\ \E i \in 1..Len(call.pre.products) :
             /\ i # call.args.id
             /\ call.pre.products[i].slug =
                    SlugOfUpdate(call.pre, call.args.id, call.args.body)

-----------------------------------------------------------------------------
(* Properties of generateSlug                                              *)

\* The positions of s where a maximal run of a-z, 0-9 begins.
Starts(s) ==
    {i \in 1..Len(s) : s[i] \in AZ09 /\ (i = 1 \/ s[i - 1] \notin AZ09)}

\* The maximal run of a-z, 0-9 of s that begins at position i.
GroupAt(s, i) ==
    SubSeq(s, i, CHOOSE j \in i..Len(s) :
                    /\ \A k \in i..j : s[k] \in AZ09
                    /\ (j = Len(s) \/ s[j + 1] \notin AZ09))

\* The maximal runs of a-z, 0-9 of s, from left to right.
Groups(s) ==
    [k \in 1..Cardinality(Starts(s)) |->
        GroupAt(s, CHOOSE i \in Starts(s) :
                      Cardinality({j \in Starts(s) : j <= i}) = k)]

RECURSIVE JoinHyphen(_)
JoinHyphen(gs) ==
    IF gs = <<>> THEN <<>>
    ELSE IF Len(gs) = 1 THEN gs[1]
    ELSE gs[1] \o <<"-">> \o JoinHyphen(Tail(gs))

IsSlug(v) ==
    /\ v # <<>>
    /\ \A i \in 1..Len(v) : v[i] \in AZ09 \cup {"-"}
    /\ v[1] # "-" /\ v[Len(v)] # "-"
    /\ \A i \in 1..Len(v) - 1 : ~(v[i] = "-" /\ v[i + 1] = "-")

\* createProduct was called with a name, a category and a base price.
RequiredGiven(body) ==
    /\ body.name # None /\ Get(body.name) # <<>>
    /\ body.categoryId # None /\ Get(body.categoryId) # 0
    /\ body.basePrice # None /\ Get(body.basePrice) # 0

-----------------------------------------------------------------------------
(* Properties of the user service                                          *)

Stored(us, email) == \E i \in 1..Len(us) : us[i].email = email

\* The stored user of that email.
UserOf(us, email) == us[CHOOSE i \in 1..Len(us) : us[i].email = email]

\* The body names an email that a stored user already has.
NamesStoredEmail ==
    /\ http.op = "register"
    /\ http.args.body.email # None
    /\ Stored(http.pre.users, Get(http.args.body.email))

\* C3 (as claimed): POST /auth/register with the email of a stored user answers
\* 400 'Email already registered' and leaves the stored users unchanged.
C3_DuplicateEmailRejected ==
    NamesStoredEmail =>
        /\ http.res.status = 400
        /\ http.res.error = Str("Email already registered")
        /\ users = http.pre.users

\* A registration that passes the validators of the route: a password of at
\* least 6 characters, a name of 2 to 100, a role of the four or none, and no
\* other field.
WellFormedRegistration(body) ==
    /\ body.password # None /\ Len(Get(body.password)) >= 6
    /\ body.name # None /\ Len(Get(body.name)) >= 2 /\ Len(Get(body.name)) <= 100
    /\ body.role \subseteq Roles
    /\ ~body.extra

\* C3 (amended): POST /auth/register with the email of a stored user leaves the
\* stored users unchanged and answers 400; the error is 'Email already
\* registered' when the rest of the body passes validation, and the list of
\* validation messages otherwise.
C3_DuplicateEmailRejectedWhenValid ==
    NamesStoredEmail =>
        /\ http.res.status = 400
        /\ users = http.pre.users
        /\ IF WellFormedRegistration(http.args.body)
           THEN http.res.error = Str("Email already registered")
           ELSE http.res.error.list /\ http.res.error.msgs # <<>>

\* C3 witness: a second user is stored, and a well-formed registration with the
\* email of the first was refused.
C3_Witness ==
    /\ NamesStoredEmail
    /\ Len(users) = 2
    /\ http.args.body.email = Some(users[1].email)
    /\ WellFormedRegistration(http.args.body)
    /\ http.res.error = Str("Email already registered")

\* GET /profile was asked with 'Bearer ' and a token that a login returned.
ProfileWithIssuedToken ==
    /\ http.op = "getProfile"
    /\ http.args.header # None
    /\ Get(http.args.header).scheme = <<"Bearer ">>
    /\ Get(http.args.header).token # None
    /\ \E g \in http.pre.issued : g.token = Get(Get(http.args.header).token)

\* The login that returned the token of the request.
LoginOfToken ==
    CHOOSE g \in http.pre.issued : g.token = Get(Get(http.args.header).token)

\* The profile of the stored user of that email.
ProfileOf(email) ==
    LET u == UserOf(users, email)
    IN  [id |-> u.id, email |-> u.email, name |-> u.name, role |-> u.role]

\* The id, email, name and role of the data of a response, if it has data.
Identity(data) ==
    {[id |-> d.id, email |-> d.email, name |-> d.name, role |-> d.role] : d \in data}

\* C4 (as claimed): GET /profile with the token of a successful login of user U
\* answers 200 with U's id, email, name and role.
C4_TokenGivesOwnProfile ==
    ProfileWithIssuedToken =>
        /\ http.res.status = 200
        /\ Identity(http.res.data) = Some(ProfileOf(LoginOfToken.email))

\* C4 (amended): GET /profile with the token of a successful login of user U
\* answers 200 with U's id, email, name and role as stored now, for one hour
\* from the login; from then on it answers 401 'Invalid token'. It never
\* answers with the data of another user.
C4_TokenGivesOwnProfileForAnHour ==
    ProfileWithIssuedToken =>
        IF http.at < LoginOfToken.token.iat + ExpiresIn
        THEN /\ http.res.status = 200
             /\ Identity(http.res.data) = Some(ProfileOf(LoginOfToken.email))
        ELSE /\ http.res.status = 401
             /\ http.res.error = Str("Invalid token")
             /\ http.res.data = None

\* C4 witness: with two users stored, the second asked for the profile with an
\* unexpired token and got it.
C4_Witness ==
    /\ ProfileWithIssuedToken
    /\ Len(users) = 2
    /\ LoginOfToken.email = users[2].email
    /\ http.at > LoginOfToken.token.iat
    /\ http.res.status = 200

\* The bearer token of the request verifies at the time of the request: it is
\* signed with the secret over its content and has not expired.
CarriesGoodToken ==
    /\ http.args.header # None
    /\ Get(http.args.header).token # None
    /\ LET t == Get(Get(http.args.header).token)
       IN  /\ t.sig = Signature(JWT_SECRET, t.payload, t.iat, t.exp)
           /\ http.at < t.exp

\* The header carries a token, and the token does not verify at the time of the
\* request.
CarriesBadToken ==
    /\ http.args.header # None
    /\ Get(http.args.header).token # None
    /\ ~CarriesGoodToken

\* C5: a profile handler runs only if the Authorization header carries a token
\* whose signature and expiry verify, and then req.user is the decoded claims
\* of that token; without an Authorization header the answer is 401 'No token
\* provided', with a token that does not verify it is 401 'Invalid token', and
\* in both cases no handler runs.
C5_AuthGuardsProfile ==
    http.op \in {"getProfile", "updateProfile"} =>
        /\ http.handler # "none" =>
              /\ CarriesGoodToken
              /\ LET t == Get(Get(http.args.header).token)
                 IN  http.user = Some([id |-> t.payload.id, email |-> t.payload.email,
                                       role |-> t.payload.role, iat |-> t.iat,
                                       exp |-> t.exp])
        /\ http.args.header = None =>
              /\ http.res.status = 401
              /\ http.res.error = Str("No token provided")
              /\ http.handler = "none"
              /\ users = http.pre.users
        /\ CarriesBadToken =>
              /\ http.res.status = 401
              /\ http.res.error = Str("Invalid token")
              /\ http.handler = "none"
              /\ users = http.pre.users

\* C5 witness: a token that a login returned was refused once it had expired.
C5_Witness ==
    /\ ProfileWithIssuedToken
    /\ http.at >= LoginOfToken.token.exp
    /\ http.handler = "none"
    /\ http.res.error = Str("Invalid token")

\* The password of the login is the one the user of that email registered with.
PasswordMatches ==
    /\ http.args.body.email # None /\ http.args.body.password # None
    /\ Stored(http.pre.users, Get(http.args.body.email))
    /\ UserOf(http.pre.users, Get(http.args.body.email)).password
          = BcryptHash(Get(http.args.body.password))

Unauthorized == Reply(401, Str("Invalid credentials"), None, None)

\* C6 (as claimed): POST /auth/login issues a token only for a stored email with
\* the matching password; otherwise it answers 401 'Invalid credentials', the
\* same reply whether the email or the password is wrong, and issues nothing.
C6_LoginNeedsMatchingPassword ==
    http.op = "login" =>
        /\ http.res.token # None => PasswordMatches
        /\ ~PasswordMatches => (http.res = Unauthorized /\ issued = http.pre.issued)

\* C6 (amended): POST /auth/login issues a token only for a stored email with the
\* matching password. Given a well-formed email and a non-empty password (and
\* no other field), a wrong password and an unknown email both get the same
\* 401 'Invalid credentials'; a malformed or missing email or an empty password
\* gets 400 with the validation messages. No token is issued in either case.
C6_LoginNeedsMatchingPasswordWhenValid ==
    http.op = "login" =>
        /\ http.res.token # None => PasswordMatches
        /\ ~PasswordMatches =>
              /\ issued = http.pre.issued
              /\ http.res.token = None
              /\ IF /\ IsEmail(Text(http.args.body.email))
                    /\ Text(http.args.body.password) # ""
                    /\ ~http.args.body.extra
                 THEN http.res = Unauthorized
                 ELSE http.res.status = 400 /\ http.res.error.list

\* C6 witness: a stored user logged in with the password of the other user and
\* was refused.
C6_Witness ==
    /\ http.op = "login"
    /\ Len(users) = 2
    /\ http.args.body.email = Some(users[1].email)
    /\ users[2].password = BcryptHash(Text(http.args.body.password))
    /\ ~PasswordMatches
    /\ http.res = Unauthorized

-----------------------------------------------------------------------------
(* Properties of the catalog service: errors, frames, generated SKUs       *)

\* C11 (as claimed): PUT /products/:id for an id that has no stored product
\* answers 404 'Product not found' and changes nothing stored.
C11_UpdateOfMissingIsNotFound ==
    (call.op = "updateProduct" /\ call.args.id \notin 1..Len(call.pre.products)) =>
        /\ call.res.status = 404
        /\ call.res.error = "Product not found"
        /\ db = call.pre

\* C16 (as claimed): creating a product with two variants that name no sku, on a
\* store where nothing else stands in the way, succeeds and stores each variant
\* with its own generated SKU PRD-<productId>-<timestamp>, the two being
\* different.
C16_GeneratedSkusDistinct ==
    (/\ call.op = "createProduct"
     /\ call.args.body = [Fixture1 EXCEPT !.variants = Some(<<VariantA, VariantB>>)]
     /\ call.args.fault = 0
     /\ call.pre = EmptyDb) =>
        /\ ~call.out.threw
        /\ Len(db.variants) = 2
        /\ \A i \in 1..2 : /\ Len(db.variants[i].sku) = 3
                           /\ db.variants[i].sku[1] = "PRD"
                           /\ db.variants[i].sku[2] = 1
        /\ db.variants[1].sku # db.variants[2].sku

\* C19 (as claimed): createProduct rejects with 'Name, category, and base price
\* are required' (400 at POST /products) exactly when name, categoryId or
\* basePrice is not supplied (an empty name counting as none); a body with all three and a basePrice >= 0, 0
\* included, is not rejected by this check.
C19_RequiredExactlyWhenMissing ==
    call.op = "createProduct" =>
        LET body == call.args.body
            rejected == /\ call.res.status = 400
                        /\ call.res.error = "Name, category, and base price are required"
        IN  /\ rejected <=>
                  \/ body.name = None \/ Get(body.name) = <<>>
                  \/ body.categoryId = None
                  \/ body.basePrice = None
            /\ (/\ body.name # None /\ Len(Get(body.name)) >= 2
                /\ body.categoryId # None /\ Get(body.categoryId) >= 1
                /\ body.basePrice # None /\ Get(body.basePrice) >= 0) => ~rejected

\* C20 (as claimed): a datastore error in an endpoint gives a 500 response with
\* a generic message that does not carry the text of the underlying error.
\* Stated for POST /products, where the model injects the datastore errors.
C20_DatastoreErrorIsGeneric500 ==
    (/\ call.op = "createProduct"
     /\ call.args.fault > 0
     /\ call.out.threw
     /\ call.out.step \in {"productInsert", "variantInsert", "imageInsert", "readback"}
     /\ call.out.error = "Database error") =>
        /\ call.res.status = 500
        /\ call.res.error # "Database error"

\* C14: deleteProduct only sets isActive to false on its product: the row stays
\* stored with its other fields, and the variants, the images and all other
\* products are as before; and no step of the service makes the number of
\* stored product rows smaller.
C14_DeleteOnlyClearsIsActive ==
    /\ [](call.op = "deleteProduct" =>
            IF call.args.id \in 1..Len(call.pre.products)
            THEN /\ ~call.out.threw
                 /\ db = [call.pre EXCEPT !.products[call.args.id].isActive = FALSE]
            ELSE call.out.threw /\ db = call.pre)
    /\ [][Len(db'.products) >= Len(db.products)]_vars

\* C14 witness: an active product that has variants was deleted while another
\* product was stored.
C14_Witness ==
    /\ call.op = "deleteProduct"
    /\ ~call.out.threw
    /\ Len(db.products) = 2
    /\ call.pre.products[call.args.id].isActive
    /\ \E i \in 1..Len(db.variants) : db.variants[i].productId = call.args.id

\* The row of the product an update was made on, before and after.
RowBefore == call.pre.products[call.args.id]
RowAfter == db.products[call.args.id]

\* The update names a name other than the stored one.
Renames ==
    /\ call.args.body.name # None
    /\ Get(call.args.body.name) # RowBefore.name

\* C15: an updateProduct that succeeds has stored the slug regenerated from the
\* new name exactly when it supplied a name other than the stored one; with no
\* name, or the stored name, the slug is as the caller gave it or as it was. In
\* both cases every other field is the supplied value or the stored one, and
\* nothing else in the store has changed. An updateProduct that fails changes
\* nothing.
C15_SlugRegeneratedOnRename ==
    (call.op = "updateProduct" /\ call.args.id \in 1..Len(call.pre.products)) =>
        LET upd == call.args.body
            PickOr(o, old) == IF o = None THEN old ELSE Get(o)
        IN  IF call.out.threw THEN db = call.pre
            ELSE /\ db = [call.pre EXCEPT !.products[call.args.id] = RowAfter]
                 /\ RowAfter =
                      [RowBefore EXCEPT
                         !.name = PickOr(upd.name, @),
                         !.basePrice = PickOr(upd.basePrice, @),
                         !.isActive = PickOr(upd.isActive, @),
                         !.slug = IF Renames
                                  THEN JoinHyphen(Groups(ToLowerCase(Get(upd.name))))
                                  ELSE PickOr(upd.slug, @)]

\* C15 witness: an update with the stored name left alone a slug that is not
\* the slug of that name.
C15_Witness ==
    /\ call.op = "updateProduct"
    /\ call.args.id \in 1..Len(call.pre.products)
    /\ ~call.out.threw
    /\ call.args.body.name = Some(RowBefore.name)
    /\ RowAfter.slug # JoinHyphen(Groups(ToLowerCase(RowBefore.name)))

\* str contains sub, letter case aside.
Contains(str, sub) ==
    \E i \in 0..(Len(str) - Len(sub)) :
        \A k \in 1..Len(sub) : Fold(str[i + k]) = Fold(sub[k])

\* C13 (as claimed): every product getProducts returns is active and satisfies
\* all the supplied filters together: its categoryId is the requested one, its
\* name or description contains the search text, its basePrice lies between min
\* and max, its tags contain every requested tag, its isCustomizable is the
\* requested flag.
C13_ReturnedRowsSatisfyFilters ==
    call.op = "getProducts" =>
        LET f == call.args.filters
        IN  \A k \in 1..Len(Get(call.out.value).products) :
                LET row == db.products[Get(call.out.value).products[k]]
                IN  /\ row.isActive
                    /\ f.categoryId # None => row.categoryId = f.categoryId
                    /\ f.search # None =>
                          \/ Contains(row.name, Get(f.search))
                          \/ row.description # None
                                /\ Contains(Get(row.description), Get(f.search))
                    /\ (f.priceRange # None /\ Get(f.priceRange).min # None
                            /\ Get(f.priceRange).max # None) =>
                          /\ Get(Get(f.priceRange).min) <= row.basePrice
                          /\ row.basePrice <= Get(Get(f.priceRange).max)
                    /\ f.tags # None =>
                          (Get(f.tags) = {}
                             \/ (row.tags # None /\ Get(f.tags) \subseteq Get(row.tags)))
                    /\ f.isCustomizable # None => row.isCustomizable = Get(f.isCustomizable)

\* C12 (as claimed): GET /products without filter parameters returns every
\* active product, whatever its category, price, tags or isCustomizable, up to
\* the size of the page (20 when none is asked for).
C12_NoFilterReturnsAllActive ==
    (call.op = "getProductsReq" /\ call.args.query = NoQuery) =>
        LET active == {i \in 1..Len(db.products) : db.products[i].isActive}
            got == Get(call.res.data)
        IN  /\ call.res.status = 200
            /\ {got.products[k] : k \in 1..Len(got.products)} = active
            /\ got.pagination.totalItems = Cardinality(active)

-----------------------------------------------------------------------------
(* Properties of the user service: roles                                   *)

\* The Authorization header is a token that verifies at the time of the
\* request, alone or after 'Bearer '.
CarriesValidBearer ==
    /\ CarriesGoodToken
    /\ Get(http.args.header).scheme \in {<<>>, <<"Bearer ">>}

\* A register or profile-update request that names a role outside the four.
CarriesOtherRole ==
    /\ http.op \in {"register", "updateProfile"}
    /\ http.args.body.role # None
    /\ Get(http.args.body.role) \notin Roles

\* C17 (as claimed): every stored user has one of the four roles; a register or
\* profile-update request with any other role is answered 400 and changes
\* nothing; a registration without a role stores 'customer'.
C17_RoleIsOneOfFour ==
    /\ \A i \in 1..Len(users) : users[i].role \in Roles
    /\ CarriesOtherRole => (http.res.status = 400 /\ users = http.pre.users)
    /\ (http.op = "register" /\ http.res.status = 201 /\ http.args.body.role = None) =>
          users[Len(users)].role = "customer"

\* C17 (amended): every stored user has one of the four roles; a register
\* request with any other role, and a profile update with any other role and a
\* token that verifies, is answered 400 and changes nothing; a profile update
\* without such a token is answered 401 and changes nothing; a registration
\* without a role stores 'customer'.
C17_RoleIsOneOfFourBehindAuth ==
    /\ \A i \in 1..Len(users) : users[i].role \in Roles
    /\ CarriesOtherRole =>
          /\ users = http.pre.users
          /\ http.res.status =
                IF http.op = "updateProfile" /\ ~CarriesValidBearer THEN 401 ELSE 400
    /\ (http.op = "register" /\ http.res.status = 201 /\ http.args.body.role = None) =>
          /\ Len(users) = Len(http.pre.users) + 1
          /\ users[Len(users)].role = "customer"
          /\ http.res.data = Some([email |-> Get(http.args.body.email),
                                   name |-> Get(http.args.body.name),
                                   role |-> "customer"])

\* C17 witness: a profile update with a token that verifies and a role outside
\* the four was refused.
C17_Witness ==
    /\ http.op = "updateProfile"
    /\ CarriesOtherRole
    /\ CarriesValidBearer
    /\ http.res.status = 400

\* C18: on GET /profile/admin a request without a token that verifies is
\* answered 401 by auth, never 403; behind auth, the gate runs the handler
\* exactly when the role claim of the token is admin, and otherwise answers
\* 403 'Forbidden' without running it.
C18_RoleGateBehindAuth ==
    http.op = "admin" =>
        IF ~CarriesValidBearer
        THEN http.res.status = 401 /\ http.handler = "none"
        ELSE IF Get(Get(http.args.header).token).payload.role \in {"admin"}
        THEN /\ http.handler = "admin"
             /\ http.res.status = 200
             /\ http.res.message = "Admin access granted"
        ELSE /\ http.handler = "none"
             /\ http.res.status = 403
             /\ http.res.error = Str("Forbidden")

\* C18 witness: a user whose stored role has become admin was refused with the
\* token of an earlier login, whose role claim is another.
C18_Witness ==
    /\ http.op = "admin"
    /\ http.res.status = 403
    /\ CarriesValidBearer
    /\ users[Get(Get(http.args.header).token).payload.id].role = "admin"

-----------------------------------------------------------------------------
(* Properties of the catalog service: transactions, stored slugs, paging   *)

\* C23 (as claimed): every transaction createProduct opens is finished exactly
\* once, by one commit or by one rollback and no second call of either, also
\* when the read-back of the product after the commit fails.
C23_TransactionFinishedOnce ==
    call.op = "createProduct" =>
        /\ call.out.calls \in {<<"commit">>, <<"rollback">>}
        /\ call.out.threw <=> call.out.calls = <<"rollback">>
        /\ call.out.threw => db = call.pre

\* C29 (as claimed): the slug of every stored product is generateSlug of its
\* name, so a slug that a client sent in a create or update body is stored only
\* if it is that slug.
C29_StoredSlugIsSlugOfName ==
    \A i \in 1..Len(db.products) :
        db.products[i].slug = JoinHyphen(Groups(ToLowerCase(db.products[i].name)))

\* C30 (as claimed): whatever the page and limit parameters of GET /products,
\* the controller passes the service a page >= 1 and a limit >= 1, so the offset
\* (page - 1) * limit is not negative and the totalPages of an answered query is a
\* non-negative integer.
C30_PageAndLimitAtLeastOne ==
    call.op = "getProductsReq" =>
        LET passed == QueryPagination(call.args.query)
        IN  /\ Get(passed.page) >= 1
            /\ Get(passed.limit) >= 1
            /\ (Get(passed.page) - 1) * Get(passed.limit) >= 0
            /\ call.res.status = 200 =>
                   Get(call.res.data).pagination.totalPages >= 0

-----------------------------------------------------------------------------
(* Properties of the user service: validation, addresses, stored columns   *)

\* The body of a registration breaks a rule of the claim: an email that is no
\* address, a password of fewer than 6 characters, or a name of fewer than 2 or
\* more than 100.
BreaksRegistrationRule(body) ==
    \/ body.email = None \/ Get(body.email) \in {"", "a.x.io"}
    \/ body.password = None \/ Len(Get(body.password)) < 6
    \/ body.name = None \/ Len(Get(body.name)) < 2 \/ Len(Get(body.name)) > 100

\* C22: POST /auth/register with an invalid email, a password shorter than 6
\* characters or a name shorter than 2 or longer than 100 characters answers 400
\* with success false and stores no user; POST /auth/login without a password
\* answers 400 with success false and issues no token.
C22_InvalidBodyIsRejected ==
    /\ http.op = "register" /\ BreaksRegistrationRule(http.args.body) =>
           /\ http.res.status = 400
           /\ ~http.res.success
           /\ http.res.data = None
           /\ users = http.pre.users
    /\ http.op = "login" /\ http.args.body.password \in {None, Some("")} =>
           /\ http.res.status = 400
           /\ ~http.res.success
           /\ http.res.token = None
           /\ issued = http.pre.issued

\* C22 witness: with a user stored, a registration with a name of more than 100
\* characters was answered 400.
C22_Witness ==
    /\ http.op = "register"
    /\ http.args.body.name # None
    /\ Len(Get(http.args.body.name)) > 100
    /\ http.pre.users # <<>>
    /\ http.res.status = 400

\* The request carries a token that a login returned, and the user who logged
\* in with it.
TokenIssued ==
    /\ http.args.header # None
    /\ \E g \in http.pre.issued : Some(g.token) = Get(http.args.header).token

Requester == UserOf(users, LoginOfToken.email)

\* C25: an address created through POST /profile/addresses is appended with the
\* id of the authenticated user as its userId, whatever userId the body carries,
\* and no stored address changes; GET /profile/addresses returns exactly the
\* stored addresses of the requester, and the addresses in GET /profile are all
\* the requester's.
C25_AddressesBelongToRequester ==
    /\ http.op = "addAddress" =>
           IF http.res.status = 201
           THEN /\ TokenIssued
                /\ Get(http.res.data).userId = Requester.id
                /\ addresses = Append(http.pre.addresses, Get(http.res.data))
           ELSE addresses = http.pre.addresses
    /\ http.op = "getAddresses" /\ http.res.status = 200 =>
           /\ TokenIssued
           /\ \A i \in 1..Len(Get(http.res.data)) :
                  Get(http.res.data)[i].userId = Requester.id
           /\ \A j \in 1..Len(addresses) :
                  addresses[j].userId = Requester.id =>
                      \E i \in 1..Len(Get(http.res.data)) :
                          Get(http.res.data)[i] = addresses[j]
    /\ http.op = "getProfile" /\ http.res.status = 200 =>
           /\ TokenIssued
           /\ \A i \in 1..Len(Get(http.res.data).addresses) :
                  Get(http.res.data).addresses[i].userId = Requester.id

\* C25 witness: while another user has an address, a user added one with a body
\* that carries the other user's id as userId.
C25_Witness ==
    /\ http.op = "addAddress"
    /\ http.res.status = 201
    /\ http.args.body.userId # None
    /\ Get(http.args.body.userId) # Requester.id
    /\ http.pre.addresses # <<>>
    /\ http.pre.addresses[1].userId = Get(http.args.body.userId)

\* C26 (as claimed): no response of register, login, getProfile, updateProfile,
\* addAddress or getAddresses carries the stored password hash of a user: the
\* data of such a response is no user row with its password column.
C26_NoPasswordHashInResponse ==
    /\ http.op \in {"register", "login", "getProfile", "updateProfile", "addAddress"}
       /\ http.res.data # None =>
           \A u \in {Get(http.res.data)} :
               "password" \in DOMAIN u =>
                   \A i \in 1..Len(users) : u.password # users[i].password
    /\ http.op = "getAddresses" /\ http.res.data # None =>
           \A i \in 1..Len(Get(http.res.data)) :
               "password" \notin DOMAIN Get(http.res.data)[i]

\* C27 (as claimed): a request is let through the admin gate of GET
\* /profile/admin only if the role stored for the requesting user at that moment
\* is admin, also with a token issued before PUT /profile changed the role.
C27_AdminGateFollowsStoredRole ==
    http.op = "admin" /\ http.handler = "admin" =>
        /\ TokenIssued
        /\ Requester.role = "admin"

\* C28: PUT /profile changes nothing but the name and the role of the record of
\* the authenticated user: the id, email, password and isVerified of that record
\* stay as they were whatever the body names, every other record stays as it
\* was, and a request that is not answered 200 changes nothing.
C28_UpdateProfileFrame ==
    http.op = "updateProfile" =>
        IF http.res.status = 200
        THEN /\ TokenIssued
             /\ DOMAIN users = DOMAIN http.pre.users
             /\ \A i \in DOMAIN users :
                    IF i = Requester.id
                    THEN \A c \in {"id", "email", "password", "isVerified"} :
                             users[i][c] = http.pre.users[i][c]
                    ELSE users[i] = http.pre.users[i]
        ELSE users = http.pre.users

\* C28 witness: with two users stored, the first changed the role with a body
\* that also names the id and the email of the second, a password and isVerified.
C28_Witness ==
    /\ http.op = "updateProfile"
    /\ http.res.status = 200
    /\ Len(users) = 2
    /\ Requester.id = 1
    /\ http.args.body.id = Some(2)
    /\ http.args.body.email = Some(users[2].email)
    /\ http.args.body.password \notin {None, Some(users[1].password)}
    /\ http.args.body.isVerified = Some(TRUE)
    /\ users[1].role # http.pre.users[1].role

\* No two stored users have the same email.
UniqueEmails == \A i, j \in 1..Len(users) : users[i].email = users[j].email => i = j

\* C24 (as claimed): when registrations for the same new email overlap, at most
\* one user of the email is stored and every one of the requests, its body being
\* valid, is answered either 201, its user stored by it, or 400 'Email already
\* registered', nothing stored by it.
C24_OverlappingRegistrations ==
    /\ UniqueEmails
    /\ http.op = "register" /\ ~BreaksRegistrationRule(http.args.body)
       /\ WellFormedRegistration(http.args.body) =>
           \/ /\ http.res.status = 201
              /\ Len(users) = Len(http.pre.users) + 1
              /\ ~Stored(http.pre.users, Get(http.args.body.email))
              /\ Stored(users, Get(http.args.body.email))
           \/ /\ http.res.status = 400
              /\ http.res.error = Str("Email already registered")
              /\ Stored(http.pre.users, Get(http.args.body.email))
              /\ users = http.pre.users

-----------------------------------------------------------------------------
(* Properties of both services: the envelope of the responses              *)

\* The last response is one of a product endpoint, or of an auth or profile
\* endpoint.
ProductEndpoint ==
    call.op \in {"createProduct", "getProduct", "updateProduct", "deleteProduct",
                 "getProductsReq"}

UserEndpoint == http.op # "none"

Statuses == {200, 201, 400, 401, 403, 404, 500}

\* C21 (as claimed): every response of the product, auth and profile endpoints
\* has a boolean success and a status of 200, 201, 400, 401, 403, 404, 500; with
\* success true it carries data, with success false it carries error.
C21_Envelope ==
    /\ ProductEndpoint =>
           /\ call.res.success \in BOOLEAN
           /\ call.res.status \in Statuses
           /\ IF call.res.success THEN call.res.data # None ELSE call.res.error # ""
    /\ UserEndpoint =>
           /\ http.res.success \in BOOLEAN
           /\ http.res.status \in Statuses
           /\ IF http.res.success THEN http.res.data # None ELSE http.res.error # NoError

\* C21 (amended): every response of the product, auth and profile endpoints has
\* a boolean success, true exactly with the statuses 200 and 201, and a status
\* of 200, 201, 400, 401, 403, 404, 500. With success false it carries error and
\* neither data nor token. With success true it carries no error, and it carries
\* data, except that the response of login carries token instead and those of
\* DELETE /products/:id and GET /profile/admin carry only a message.
C21_EnvelopeWithTokenAndMessage ==
    /\ ProductEndpoint =>
           /\ call.res.success \in BOOLEAN
           /\ call.res.status \in Statuses
           /\ call.res.success <=> call.res.status \in {200, 201}
           /\ IF ~call.res.success
              THEN call.res.error # "" /\ call.res.data = None
              ELSE /\ call.res.error = ""
                   /\ IF call.op = "deleteProduct"
                      THEN call.res.data = None /\ call.res.message # ""
                      ELSE call.res.data # None
    /\ UserEndpoint =>
           /\ http.res.success \in BOOLEAN
           /\ http.res.status \in Statuses
           /\ http.res.success <=> http.res.status \in {200, 201}
           /\ IF ~http.res.success
              THEN /\ http.res.error # NoError
                   /\ http.res.data = None
                   /\ http.res.token = None
              ELSE /\ http.res.error = NoError
                   /\ IF http.op = "login"
                      THEN http.res.data = None /\ http.res.token # None
                      ELSE IF http.op = "admin"
                      THEN /\ http.res.data = None
                           /\ http.res.token = None
                           /\ http.res.message # ""
                      ELSE http.res.data # None /\ http.res.token = None

\* C21 witness: a login was answered 200 with a token and without data.
C21_Witness ==
    /\ http.op = "login"
    /\ http.res.status = 200
    /\ http.res.success
    /\ http.res.token # None
    /\ http.res.data = None

====
